---------------------------- MODULE Spec2Model ----------------------------
(***************************************************************************)
(* A model of the CronParser class of src/src/cronParser.ts: construction  *)
(* (parse and its field parsers), the per-month effective day set,         *)
(* isMatch, the forward / backward fire-time searches behind next and      *)
(* previous, and translate.                                                *)
(*                                                                         *)
(* Field texts are sequences of one-character strings, so that the parser  *)
(* is modelled by what it does to the characters.  Instants are civil      *)
(* date-times in the schedule's zone; the zone is a fixed-offset zone      *)
(* (UTC), for which the order of civil date-times is the order of epoch    *)
(* seconds.  Reference instants are whole seconds.                         *)
(***************************************************************************)
EXTENDS Integers, Sequences, FiniteSets, TLC

(***************************************************************************)
(* JavaScript values that are not numbers                                  *)
(***************************************************************************)

\* NaN as produced by parseInt on a text without leading digits
NaN == -1000000

\* undefined as returned by Array.prototype.find ?? vals[0] on an empty array
undefined == -1

isNaN(x) == x = NaN

(***************************************************************************)
(* The civil calendar (luxon DateTime in a fixed-offset zone)              *)
(***************************************************************************)

isLeap(year) == (year % 4 = 0 /\ year % 100 # 0) \/ year % 400 = 0

\* the days of a month in a calendar without leap years
daysInMonthOfCommonYear(year, month) ==
  IF month = 2 THEN 28 ELSE IF month \in {4, 6, 9, 11} THEN 30 ELSE 31

\* DateTime#daysInMonth
daysInMonth(year, month) ==
  IF month = 2 THEN (IF isLeap(year) THEN 29 ELSE 28)
  ELSE IF month \in {4, 6, 9, 11} THEN 30 ELSE 31

\* days of the civil date since 1970-01-01
daysFromCivil(year, month, day) ==
  LET y   == IF month <= 2 THEN year - 1 ELSE year
      era == y \div 400
      yoe == y - era * 400
      mp  == (month + 9) % 12
      doy == (153 * mp + 2) \div 5 + day - 1
      doe == yoe * 365 + yoe \div 4 - yoe \div 100 + doy
  IN  era * 146097 + doe - 719468

\* DateTime#weekday: 1 = Monday .. 7 = Sunday
weekday(year, month, day) == ((daysFromCivil(year, month, day) + 3) % 7) + 1

\* the code's `dt.weekday % 7` : 0 = Sunday .. 6 = Saturday
dowOf(year, month, day) == weekday(year, month, day) % 7

\* DateTime.fromObject({year, month, day, hour, minute, second}, {zone})
\* an invalid DateTime (every accessor is NaN)
Invalid ==
  [year |-> NaN, month |-> NaN, day |-> NaN, hour |-> NaN, minute |-> NaN, second |-> NaN]

fromObject(y, mo, dd, h, mi, s) ==
  IF \/ isNaN(y) \/ isNaN(mo) \/ isNaN(dd)
     \/ mo < 1 \/ mo > 12 \/ dd < 1 \/ dd > daysInMonth(y, mo)
    THEN Invalid
    ELSE [year |-> y, month |-> mo, day |-> dd, hour |-> h, minute |-> mi, second |-> s]

\* DateTime#invalidReason !== null
invalidReason(d) == isNaN(d.year)

\* DateTime#plus({seconds: 1}).startOf('second')
plusSecond(d) ==
  IF invalidReason(d) THEN Invalid
  ELSE IF d.second < 59 THEN [d EXCEPT !.second = d.second + 1]
  ELSE IF d.minute < 59 THEN [d EXCEPT !.second = 0, !.minute = d.minute + 1]
  ELSE IF d.hour < 23 THEN [d EXCEPT !.second = 0, !.minute = 0, !.hour = d.hour + 1]
  ELSE IF d.day < daysInMonth(d.year, d.month)
    THEN [d EXCEPT !.second = 0, !.minute = 0, !.hour = 0, !.day = d.day + 1]
  ELSE IF d.month < 12
    THEN [d EXCEPT !.second = 0, !.minute = 0, !.hour = 0, !.day = 1, !.month = d.month + 1]
  ELSE fromObject(d.year + 1, 1, 1, 0, 0, 0)

\* DateTime#minus({seconds: 1}).endOf('second')
minusSecond(d) ==
  IF invalidReason(d) THEN Invalid
  ELSE IF d.second > 0 THEN [d EXCEPT !.second = d.second - 1]
  ELSE IF d.minute > 0 THEN [d EXCEPT !.second = 59, !.minute = d.minute - 1]
  ELSE IF d.hour > 0 THEN [d EXCEPT !.second = 59, !.minute = 59, !.hour = d.hour - 1]
  ELSE IF d.day > 1
    THEN [d EXCEPT !.second = 59, !.minute = 59, !.hour = 23, !.day = d.day - 1]
  ELSE IF d.month > 1
    THEN [d EXCEPT !.second = 59, !.minute = 59, !.hour = 23,
                   !.day = daysInMonth(d.year, d.month - 1), !.month = d.month - 1]
  ELSE fromObject(d.year - 1, 12, 31, 23, 59, 59)

\* DateTime#toUnixInteger, kept as <<days since the epoch, second of the day>>
\* (the epoch second of 2099 does not fit a 32-bit integer)
toUnixInteger(d) ==
  <<daysFromCivil(d.year, d.month, d.day), d.hour * 3600 + d.minute * 60 + d.second>>

\* a < b on epoch seconds
EpochLess(a, b) == a[1] < b[1] \/ (a[1] = b[1] /\ a[2] < b[2])


(***************************************************************************)
(* Strings: a text is a sequence of one-character strings                  *)
(***************************************************************************)

Digits == <<"0", "1", "2", "3", "4", "5", "6", "7", "8", "9">>

isDigit(c) == \E i \in 1..10 : Digits[i] = c

digitValue(c) == (CHOOSE i \in 1..10 : Digits[i] = c) - 1

\* String.prototype.includes for a one-character needle
includes(str, c) == \E i \in 1..Len(str) : str[i] = c

\* String.prototype.startsWith / endsWith
startsWith(str, pre) ==
  Len(pre) <= Len(str) /\ SubSeq(str, 1, Len(pre)) = pre

endsWith(str, suf) ==
  Len(suf) <= Len(str) /\ SubSeq(str, Len(str) - Len(suf) + 1, Len(str)) = suf

\* String.prototype.slice(n) and slice(0, -1)
sliceFrom(str, n) == SubSeq(str, n + 1, Len(str))

dropLast(str) == SubSeq(str, 1, Len(str) - 1)

\* String.prototype.split for a one-character separator
RECURSIVE split(_, _)
split(str, sep) ==
  IF ~includes(str, sep) THEN <<str>>
  ELSE LET i == CHOOSE k \in 1..Len(str) :
                  str[k] = sep /\ \A j \in 1..(k - 1) : str[j] # sep
       IN  <<SubSeq(str, 1, i - 1)>> \o split(SubSeq(str, i + 1, Len(str)), sep)

\* the text of the value `undefined`, as parseInt and the comparisons see it
undefinedText == <<"u", "n", "d", "e", "f", "i", "n", "e", "d">>

\* element i (from 0) of an array destructuring: undefined past the end
element(parts, i) == IF i + 1 <= Len(parts) THEN parts[i + 1] ELSE undefinedText

\* the value of the longest digit prefix of str, NaN when there is none
RECURSIVE digitPrefix(_, _, _)
digitPrefix(str, acc, seen) ==
  IF str = <<>> \/ ~isDigit(Head(str))
    THEN (IF seen THEN acc ELSE NaN)
    ELSE digitPrefix(Tail(str), acc * 10 + digitValue(Head(str)), TRUE)

\* parseInt(str, 10): an optional sign, then the longest digit prefix
parseInt(str) ==
  IF str # <<>> /\ Head(str) = "-"
    THEN (LET v == digitPrefix(Tail(str), 0, FALSE) IN IF isNaN(v) THEN NaN ELSE 0 - v)
  ELSE IF str # <<>> /\ Head(str) = "+" THEN digitPrefix(Tail(str), 0, FALSE)
  ELSE digitPrefix(str, 0, FALSE)

\* Number.prototype.toString for a natural number
RECURSIVE toString(_)
toString(n) ==
  IF n < 10 THEN <<Digits[n + 1]>> ELSE toString(n \div 10) \o <<Digits[(n % 10) + 1]>>

LowerCase == <<"a", "b", "c", "d", "e", "f", "g", "h", "i", "j", "k", "l", "m",
               "n", "o", "p", "q", "r", "s", "t", "u", "v", "w", "x", "y", "z">>

UpperCase == <<"A", "B", "C", "D", "E", "F", "G", "H", "I", "J", "K", "L", "M",
               "N", "O", "P", "Q", "R", "S", "T", "U", "V", "W", "X", "Y", "Z">>

\* String.prototype.toUpperCase
toUpperCase(str) ==
  [i \in 1..Len(str) |->
     IF \E k \in 1..26 : LowerCase[k] = str[i]
       THEN UpperCase[CHOOSE k \in 1..26 : LowerCase[k] = str[i]]
       ELSE str[i]]

\* the enum Month and the table monthMap
monthMap == <<<<"J", "A", "N">>, <<"F", "E", "B">>, <<"M", "A", "R">>, <<"A", "P", "R">>,
              <<"M", "A", "Y">>, <<"J", "U", "N">>, <<"J", "U", "L">>, <<"A", "U", "G">>,
              <<"S", "E", "P">>, <<"O", "C", "T">>, <<"N", "O", "V">>, <<"D", "E", "C">>>>

\* the weekdays counted from Monday
dayMapFromMonday == <<<<"M", "O", "N">>, <<"T", "U", "E">>, <<"W", "E", "D">>, <<"T", "H", "U">>,
                      <<"F", "R", "I">>, <<"S", "A", "T">>, <<"S", "U", "N">>>>

\* the enum DayOfWeek and the table dayMap (SUN = 0)
dayMap == <<<<"S", "U", "N">>, <<"M", "O", "N">>, <<"T", "U", "E">>, <<"W", "E", "D">>,
            <<"T", "H", "U">>, <<"F", "R", "I">>, <<"S", "A", "T">>>>

monthNames == <<"January", "February", "March", "April", "May", "June", "July",
                "August", "September", "October", "November", "December">>

dayNames == <<"Sunday", "Monday", "Tuesday", "Wednesday", "Thursday", "Friday", "Saturday">>

\* str.replace(/NAME1|NAME2|.../g, m => (index of m + base).toString())
RECURSIVE replaceNames(_, _, _)
replaceNames(str, names, base) ==
  IF Len(str) < 3 THEN str
  ELSE IF \E k \in 1..Len(names) : names[k] = SubSeq(str, 1, 3)
    THEN toString((CHOOSE k \in 1..Len(names) : names[k] = SubSeq(str, 1, 3)) - 1 + base)
           \o replaceNames(SubSeq(str, 4, Len(str)), names, base)
    ELSE <<Head(str)>> \o replaceNames(Tail(str), names, base)

\* str.replace(/7/g, '0')
replaceSeven(str) == [i \in 1..Len(str) |-> IF str[i] = "7" THEN "0" ELSE str[i]]

normalizeField(field, type) ==
  LET up == toUpperCase(field)
  IN  IF type = "month" THEN replaceNames(up, monthMap, 1)
      ELSE IF type = "dayofweek" THEN replaceSeven(replaceNames(up, dayMap, 0))
      ELSE up

(***************************************************************************)
(* Field parsing.  A call either returns a CronField, throws a CronError   *)
(* (kind "throw", with the leading words of the message) or never returns  *)
(* (kind "hang": a loop whose counter moves away from its bound).          *)
(***************************************************************************)

\* a CronField { values, step }; step 0 stands for an absent step
CronField(values, step) == [kind |-> "ok", values |-> values, step |-> step, err |-> ""]

\* throw new CronError(msg)
CronError(msg) == [kind |-> "throw", values |-> <<>>, step |-> 0, err |-> msg]

Hang == [kind |-> "hang", values |-> <<>>, step |-> 0, err |-> ""]

\* Array.from({ length: b - a + 1 }, (_, i) => a + i)
arrayFrom(a, b) == [i \in 1..(b - a + 1) |-> a + i - 1]

\* Array.prototype.includes
arrIncludes(arr, v) == \E i \in 1..Len(arr) : arr[i] = v

\* .filter((v, i, arr) => arr.indexOf(v) === i)
dedupe(arr) ==
  LET keep == {i \in 1..Len(arr) : \A j \in 1..(i - 1) : arr[j] # arr[i]}
      RECURSIVE pick(_)
      pick(i) == IF i > Len(arr) THEN <<>>
                 ELSE (IF i \in keep THEN <<arr[i]>> ELSE <<>>) \o pick(i + 1)
  IN  pick(1)

\* .sort((a, b) => a - b)
sortAsc(arr) == SortSeq(arr, LAMBDA a, b : a < b)

\* for (let i = start; i <= end; i += step) values.push(i), with step >= 1
stepLoop(start, end, step) ==
  IF start > end THEN <<>>
  ELSE [i \in 1..((end - start) \div step + 1) |-> start + (i - 1) * step]

\* const name = value; rest -- the value is computed once and the rest of the
\* block reads it
bind(value, rest(_)) == rest(value)

parseRange(range, min, max) ==
  bind(split(range, "-"), LAMBDA parts :
  bind(parseInt(element(parts, 0)), LAMBDA start :
  bind(parseInt(element(parts, 1)), LAMBDA end :
    IF isNaN(start) \/ isNaN(end) \/ start < min \/ end > max \/ start > end
      THEN CronError("Invalid range")
      ELSE CronField(<<start, end>>, 0))))

\* one element of the flatMap over the comma list in front of a step
rangeOrValue(range, min, max) ==
  IF includes(range, "-")
    THEN bind(parseRange(range, min, max), LAMBDA r :
           IF r.kind # "ok" THEN r
           ELSE CronField(arrayFrom(r.values[1], r.values[2]), 0))
    ELSE bind(parseInt(range), LAMBDA value :
           IF isNaN(value) \/ value < min \/ value > max
             THEN CronError("Invalid value")
             ELSE CronField(<<value>>, 0))

\* ranges.flatMap(...): the first throw ends the whole call
RECURSIVE flatMapRanges(_, _, _)
flatMapRanges(ranges, min, max) ==
  IF ranges = <<>> THEN CronField(<<>>, 0)
  ELSE bind(rangeOrValue(Head(ranges), min, max), LAMBDA r :
         IF r.kind # "ok" THEN r
         ELSE bind(flatMapRanges(Tail(ranges), min, max), LAMBDA rest :
                IF rest.kind # "ok" THEN rest
                ELSE CronField(r.values \o rest.values, 0)))

\* the loop over the comma list in front of a step, from the first value
steppedList(vs, step, max) ==
  IF vs.kind # "ok" THEN vs
  ELSE IF isNaN(step)
    THEN CronField(IF vs.values[1] <= max THEN <<vs.values[1]>> ELSE <<>>, step)
  ELSE IF step < 0
    THEN (IF vs.values[1] <= max THEN Hang ELSE CronField(<<>>, step))
  ELSE CronField(
         sortAsc(SelectSeq(stepLoop(vs.values[1], max, step),
                           LAMBDA i : arrIncludes(vs.values, i))),
         step)

\* the loop over a single range in front of a step
steppedRange(r, step) ==
  IF r.kind # "ok" THEN r
  ELSE IF isNaN(step) THEN CronField(<<r.values[1]>>, step)
  ELSE IF step < 0 THEN Hang
  ELSE CronField(stepLoop(r.values[1], r.values[2], step), step)

\* the branch of parseField for a field with a "/"
parseStepped(field, min, max) ==
  bind(split(field, "/"), LAMBDA parts :
  bind(element(parts, 0), LAMBDA rangeStr :
  bind(parseInt(element(parts, 1)), LAMBDA step :
    IF step = 0 THEN CronError("Invalid step value")
    ELSE IF includes(rangeStr, ",")
      THEN steppedList(flatMapRanges(split(rangeStr, ","), min, max), step, max)
      ELSE steppedRange(parseRange(IF rangeStr = <<"*">>
                                     THEN toString(min) \o <<"-">> \o toString(max)
                                     ELSE rangeStr,
                                   min, max),
                        step))))

\* parseField for a field without "/" and without ","
parseSimple(field, min, max) ==
  IF field = <<"*">> THEN CronField(arrayFrom(min, max), 0)
  ELSE IF includes(field, "/") THEN parseStepped(field, min, max)
  ELSE rangeOrValue(field, min, max)

\* field.split(',').flatMap(part => this.parseField(part, min, max).values)
RECURSIVE flatMapParts(_, _, _)
flatMapParts(parts, min, max) ==
  IF parts = <<>> THEN CronField(<<>>, 0)
  ELSE bind(parseSimple(Head(parts), min, max), LAMBDA r :
         IF r.kind # "ok" THEN r
         ELSE bind(flatMapParts(Tail(parts), min, max), LAMBDA rest :
                IF rest.kind # "ok" THEN rest
                ELSE CronField(r.values \o rest.values, 0)))

parseField(field, min, max) ==
  IF field = <<"*">> THEN CronField(arrayFrom(min, max), 0)
  ELSE IF includes(field, "/") THEN parseStepped(field, min, max)
  ELSE IF includes(field, ",")
    THEN bind(flatMapParts(split(field, ","), min, max), LAMBDA r :
           IF r.kind # "ok" THEN r
           ELSE CronField(sortAsc(dedupe(r.values)), 0))
  ELSE parseSimple(field, min, max)

(***************************************************************************)
(* Construction: the field initializers and parse                          *)
(***************************************************************************)

\* a CronField as stored in the object
Stored(values, step) == [values |-> values, step |-> step]

\* the field initializers of the class
\* the fields of an object whose years default to the year of a clock that
\* reads 2025
fieldsOfCurrentYear ==
  [timezone    |-> "",
   seconds     |-> Stored(<<0>>, 0),
   minutes     |-> Stored(<<>>, 0),
   hours       |-> Stored(<<>>, 0),
   daysOfMonth |-> Stored(<<>>, 0),
   months      |-> Stored(<<>>, 0),
   daysOfWeek  |-> Stored(<<>>, 0),
   years       |-> Stored(<<2025>>, 0),
   dayOfMonthModifiers |->
     [lastDay |-> FALSE, lastDayOffset |-> 0, lastWeekday |-> FALSE, nearestWeekday |-> FALSE],
   dayOfWeekModifiers |-> [nthDay |-> 0, lastDay |-> FALSE]]

InitialFields ==
  [timezone    |-> "",
   seconds     |-> Stored(<<0>>, 0),
   minutes     |-> Stored(<<>>, 0),
   hours       |-> Stored(<<>>, 0),
   daysOfMonth |-> Stored(<<>>, 0),
   months      |-> Stored(<<>>, 0),
   daysOfWeek  |-> Stored(<<>>, 0),
   years       |-> Stored(<<>>, 0),
   dayOfMonthModifiers |->
     [lastDay |-> FALSE, lastDayOffset |-> 0, lastWeekday |-> FALSE, nearestWeekday |-> FALSE],
   dayOfWeekModifiers |-> [nthDay |-> 0, lastDay |-> FALSE]]

\* the outcome of a parsing method: the object so far, or a throw, or a hang
Done(obj) == [kind |-> "ok", err |-> "", obj |-> obj]

Abort(r) == [kind |-> r.kind, err |-> r.err, obj |-> InitialFields]

\* the table maxDaysInMonth of parseDayOfMonth
maxDaysInMonth == <<31, 29, 31, 30, 31, 30, 31, 31, 30, 31, 30, 31>>

\* the double loop of parseDayOfMonth over the days and the months parsed so far
invalidDate(days, months) ==
  \E i \in 1..Len(days) : \E j \in 1..Len(months) :
     /\ ~(months[j] = 2 /\ days[i] = 29)
     /\ days[i] > maxDaysInMonth[months[j]]

parseDayOfMonth(obj, field) ==
  IF field = <<"?">> THEN Done(obj)
  ELSE
    bind(normalizeField(field, "dayofmonth"), LAMBDA value :
      IF endsWith(value, <<"W">>)
        THEN (IF dropLast(value) = <<"L">>
                THEN Done([obj EXCEPT !.dayOfMonthModifiers.lastWeekday = TRUE])
                ELSE bind(parseField(dropLast(value), 1, 31), LAMBDA r :
                       IF r.kind # "ok" THEN Abort(r)
                       ELSE Done([obj EXCEPT !.dayOfMonthModifiers.nearestWeekday = TRUE,
                                             !.daysOfMonth = Stored(r.values, r.step)])))
      ELSE IF startsWith(value, <<"L", "-">>)
        THEN Done([obj EXCEPT !.dayOfMonthModifiers.lastDay = TRUE,
                              !.dayOfMonthModifiers.lastDayOffset = parseInt(sliceFrom(value, 2))])
      ELSE IF value = <<"L">>
        THEN Done([obj EXCEPT !.dayOfMonthModifiers.lastDay = TRUE])
      ELSE bind(parseField(value, 1, 31), LAMBDA r :
             IF r.kind # "ok" THEN Abort(r)
             ELSE IF Len(r.values) > 0 /\ Len(obj.months.values) > 0
                     /\ invalidDate(r.values, obj.months.values)
               THEN Abort(CronError("Invalid date"))
             ELSE Done([obj EXCEPT !.daysOfMonth = Stored(r.values, r.step)])))

parseMonth(obj, field) ==
  bind(parseField(normalizeField(field, "month"), 1, 12), LAMBDA r :
    IF r.kind # "ok" THEN Abort(r)
    ELSE Done([obj EXCEPT !.months = Stored(r.values, r.step)]))

parseDayOfWeek(obj, field0) ==
  IF field0 = <<"?">> THEN Done(obj)
  ELSE
    bind(normalizeField(field0, "dayofweek"), LAMBDA field :
      IF endsWith(field, <<"L">>)
        THEN bind(parseField(dropLast(field), 0, 6), LAMBDA r :
               IF r.kind # "ok" THEN Abort(r)
               ELSE Done([obj EXCEPT !.dayOfWeekModifiers.lastDay = TRUE,
                                     !.daysOfWeek = Stored(r.values, r.step)]))
      ELSE IF includes(field, "#")
        THEN bind(split(field, "#"), LAMBDA parts :
             bind(parseInt(element(parts, 1)), LAMBDA nthDay :
               IF ~isNaN(nthDay) /\ (nthDay < 1 \/ nthDay > 5)
                 THEN Abort(CronError("Invalid nth value for day of week"))
               ELSE bind(parseField(element(parts, 0), 0, 6), LAMBDA r :
                      IF r.kind # "ok" THEN Abort(r)
                      ELSE Done([obj EXCEPT !.dayOfWeekModifiers.nthDay = nthDay,
                                            !.daysOfWeek = Stored(r.values, r.step)]))))
      ELSE bind(parseField(field, 0, 6), LAMBDA r :
             IF r.kind # "ok" THEN Abort(r)
             ELSE Done([obj EXCEPT !.daysOfWeek = Stored(r.values, r.step)])))

\* fields[i] !== '?' && fields[i] !== '*', i counted from 0 (undefined past the end)
notWildcard(fields, i) ==
  element(fields, i) # <<"?">> /\ element(fields, i) # <<"*">>

\* the assignment this[name] = r of parse, r the outcome of a parseField call
assign(o, name, r) ==
  IF r.kind # "ok" THEN Abort(r)
  ELSE Done([o.obj EXCEPT ![name] = Stored(r.values, r.step)])

\* a statement of parse that runs when no earlier statement has thrown
andThen(o, statement(_)) == IF o.kind # "ok" THEN o ELSE statement(o)

\* parse, on the fields of cronString.trim().split(/\s+/)
parse(fields) ==
  IF Len(fields) < 5 \/ Len(fields) > 7
    THEN Abort(CronError("Invalid number of fields in cron string"))
  ELSE IF notWildcard(fields, 3) /\ notWildcard(fields, 5)
    THEN Abort(CronError("Both day-of-month and day-of-week cannot be specified unless one is * or ?"))
  ELSE
    bind(IF Len(fields) > 5 THEN 1 ELSE 0, LAMBDA idx :
      andThen(andThen(andThen(andThen(andThen(andThen(andThen(Done(InitialFields),
        LAMBDA o : assign(o, "seconds", IF Len(fields) > 5 THEN parseField(fields[1], 0, 59)
                                        ELSE CronField(<<0>>, 0))),
        LAMBDA o : assign(o, "minutes", parseField(fields[idx + 1], 0, 59))),
        LAMBDA o : assign(o, "hours", parseField(fields[idx + 2], 0, 23))),
        LAMBDA o : parseDayOfMonth(o.obj, fields[idx + 3])),
        LAMBDA o : parseMonth(o.obj, fields[idx + 4])),
        LAMBDA o : parseDayOfWeek(o.obj, fields[idx + 5])),
        LAMBDA o : IF Len(fields) = 7 THEN assign(o, "years", parseField(fields[idx + 6], 1970, 2099))
                   ELSE o))

(***************************************************************************)
(* The effective day set and the match predicate                           *)
(***************************************************************************)

\* the truth value of a number in a condition: 0 and NaN are false
truthy(x) == x # 0 /\ ~isNaN(x)

\* vals.find(v => v >= val) ?? vals[0]
getNextValue(vals, val) ==
  IF \E i \in 1..Len(vals) : vals[i] >= val
    THEN vals[CHOOSE i \in 1..Len(vals) :
                vals[i] >= val /\ \A j \in 1..(i - 1) : ~(vals[j] >= val)]
  ELSE IF Len(vals) > 0 THEN vals[1] ELSE undefined

\* vals.slice().reverse().find(v => v <= val) ?? vals[vals.length - 1]
getPreviousValue(vals, val) ==
  IF \E i \in 1..Len(vals) : vals[i] <= val
    THEN vals[CHOOSE i \in 1..Len(vals) :
                vals[i] <= val /\ \A j \in (i + 1)..Len(vals) : ~(vals[j] <= val)]
  ELSE IF Len(vals) > 0 THEN vals[Len(vals)] ELSE undefined

\* no walk back from the last day of the month
lastDowDayUnwalked(year, month, day, targetDow) == day

\* the walk of isDayOfWeekSatisfied from the last day of the month back to
\* the latest day with weekday targetDow (it stops on day 1 at the latest)
RECURSIVE lastDowDay(_, _, _, _)
lastDowDay(year, month, day, targetDow) ==
  IF dowOf(year, month, day) # targetDow /\ day > 1
    THEN lastDowDay(year, month, day - 1, targetDow)
    ELSE day

\* the week counted from the day itself
weekOfMonthFromDay(day) == (day \div 7) + 1

\* const week = Math.floor((dt.day - 1) / 7) + 1
weekOfMonth(day) == ((day - 1) \div 7) + 1

isDayOfWeekSatisfied(obj, dt) ==
  IF invalidReason(dt) THEN FALSE
  ELSE
    LET dow == dowOf(dt.year, dt.month, dt.day)
    IN  IF truthy(obj.dayOfWeekModifiers.nthDay)
          THEN IF Len(obj.daysOfWeek.values) = 0 \/ dow # obj.daysOfWeek.values[1]
                 THEN FALSE
                 ELSE LET week == weekOfMonth(dt.day)
                      IN  week = obj.dayOfWeekModifiers.nthDay /\ week <= 5
        ELSE IF obj.dayOfWeekModifiers.lastDay
          THEN LET ldom      == daysInMonth(dt.year, dt.month)
                   targetDow == IF Len(obj.daysOfWeek.values) = 0 THEN undefined
                                ELSE obj.daysOfWeek.values[1]
                   testDay   == lastDowDay(dt.year, dt.month, ldom, targetDow)
               IN  dt.day = testDay /\ dowOf(dt.year, dt.month, testDay) = targetDow
        ELSE Len(obj.daysOfWeek.values) = 0 \/ arrIncludes(obj.daysOfWeek.values, dow)

\* the last day whatever the offset
lastDayIgnoringOffset(lastDayOffset, ldom) == <<ldom>>

\* the branch of getDayOfMonthSet for `L` and `L-N`
lastDaySet(lastDayOffset, ldom) ==
  IF isNaN(lastDayOffset) THEN <<>>
  ELSE IF ldom - lastDayOffset >= 1 THEN <<ldom - lastDayOffset>> ELSE <<>>

\* no step back from a weekend
noWeekendOffset(dow) == 0

\* const offset = dow === 6 ? 1 : dow === 0 ? 2 : 0
weekendOffset(dow) == IF dow = 6 THEN 1 ELSE IF dow = 0 THEN 2 ELSE 0

\* the branch of getDayOfMonthSet for `LW`
lastWeekdaySet(year, month, ldom) == <<ldom - weekendOffset(dowOf(year, month, ldom))>>

\* candidate = Math.max(1, Math.min(ldom, candidate))
clampToMonth(candidate, ldom) ==
  IF candidate > ldom THEN (IF ldom < 1 THEN 1 ELSE ldom)
  ELSE IF candidate < 1 THEN 1 ELSE candidate

\* the branch of getDayOfMonthSet for `NW`
nearestWeekdaySet(target, year, month, ldom) ==
  IF invalidReason(fromObject(year, month, target, 0, 0, 0)) THEN <<>>
  ELSE IF dowOf(year, month, target) = 6 THEN <<clampToMonth(target - 1, ldom)>>
  ELSE IF dowOf(year, month, target) = 0 THEN <<clampToMonth(target + 1, ldom)>>
  ELSE <<clampToMonth(target, ldom)>>

getDayOfMonthSet(obj, year, month) ==
  IF invalidReason(fromObject(year, month, 1, 0, 0, 0)) THEN <<>>
  ELSE
    LET ldom == daysInMonth(year, month)
    IN  IF obj.dayOfMonthModifiers.lastDay
          THEN lastDaySet(obj.dayOfMonthModifiers.lastDayOffset, ldom)
        ELSE IF obj.dayOfMonthModifiers.lastWeekday
          THEN lastWeekdaySet(year, month, ldom)
        ELSE IF obj.dayOfMonthModifiers.nearestWeekday
          THEN nearestWeekdaySet(IF Len(obj.daysOfMonth.values) = 0 THEN 1
                                 ELSE obj.daysOfMonth.values[1], year, month, ldom)
        ELSE IF Len(obj.daysOfMonth.values) = 0
          THEN (IF \/ Len(obj.daysOfWeek.values) > 0
                   \/ truthy(obj.dayOfWeekModifiers.nthDay)
                   \/ obj.dayOfWeekModifiers.lastDay
                  THEN SelectSeq(arrayFrom(1, ldom),
                         LAMBDA day : isDayOfWeekSatisfied(obj, fromObject(year, month, day, 0, 0, 0)))
                  ELSE arrayFrom(1, ldom))
        ELSE SelectSeq(obj.daysOfMonth.values,
               LAMBDA d : IF month = 2 /\ d = 29
                            THEN (IF daysInMonth(year, 2) = 29 THEN d <= ldom ELSE FALSE)
                            ELSE d <= ldom)

isMatch(obj, d) ==
  IF invalidReason(d) THEN FALSE
  ELSE
    /\ Len(obj.years.values) = 0 \/ arrIncludes(obj.years.values, d.year)
    /\ Len(obj.months.values) = 0 \/ arrIncludes(obj.months.values, d.month)
    /\ arrIncludes(getDayOfMonthSet(obj, d.year, d.month), d.day)
    /\ isDayOfWeekSatisfied(obj, d)
    /\ Len(obj.hours.values) = 0 \/ arrIncludes(obj.hours.values, d.hour)
    /\ Len(obj.minutes.values) = 0 \/ arrIncludes(obj.minutes.values, d.minute)
    /\ Len(obj.seconds.values) = 0 \/ arrIncludes(obj.seconds.values, d.second)

(***************************************************************************)
(* The searches.  One pass of the while loop is an operator from the       *)
(* cursor d to an outcome: return d, return null, or continue with d.      *)
(***************************************************************************)

\* const maxIter = 10000 of getNextFireTime and getPreviousFireTime
maxIter == 10000

\* the first and the last year of the year domain
minDomainYear == 1970

maxDomainYear == 2099

Return(d) == [kind |-> "return", d |-> d]

ReturnNull == [kind |-> "null", d |-> Invalid]

Continue(d) == [kind |-> "continue", d |-> d]

\* a ?? b on numbers
orElse(a, b) == IF a = undefined THEN b ELSE a

first(vals) == IF Len(vals) > 0 THEN vals[1] ELSE undefined

last(vals) == IF Len(vals) > 0 THEN vals[Len(vals)] ELSE undefined

\* Math.max(...vals) and Math.min(...vals)
mathMax(vals) == CHOOSE v \in {vals[i] : i \in 1..Len(vals)} : \A i \in 1..Len(vals) : vals[i] <= v

mathMin(vals) == CHOOSE v \in {vals[i] : i \in 1..Len(vals)} : \A i \in 1..Len(vals) : vals[i] >= v

nextMaxYear(obj) == IF Len(obj.years.values) > 0 THEN mathMax(obj.years.values) ELSE maxDomainYear

prevMinYear(obj) == IF Len(obj.years.values) > 0 THEN mathMin(obj.years.values) ELSE minDomainYear

monthValuesOf(obj) == IF Len(obj.months.values) > 0 THEN obj.months.values ELSE arrayFrom(1, 12)

hourValuesOf(obj) == IF Len(obj.hours.values) > 0 THEN obj.hours.values ELSE arrayFrom(0, 23)

minuteValuesOf(obj) == IF Len(obj.minutes.values) > 0 THEN obj.minutes.values ELSE arrayFrom(0, 59)

secondValuesOf(obj) == IF Len(obj.seconds.values) > 0 THEN obj.seconds.values ELSE arrayFrom(0, 59)

\* the "advancing year" blocks of getNextFireTime
nextAdvanceYear(yearValues, monthValues, maxYear, nextYear) ==
  LET nextYearVal == getNextValue(yearValues, nextYear + 1)
  IN  IF nextYearVal = undefined \/ nextYearVal > maxYear THEN ReturnNull
      ELSE Continue(fromObject(nextYearVal, first(monthValues), 1, 0, 0, 0))

\* the "advancing day" blocks of getNextFireTime
nextAdvanceDay(yearValues, monthValues, maxYear, daySet, nextYear, nextMonth, nextDay) ==
  LET nextDayVal == getNextValue(daySet, nextDay + 1)
  IN  IF nextDayVal = undefined
        THEN nextAdvanceYear(yearValues, monthValues, maxYear, nextYear)
        ELSE Continue(fromObject(nextYear, nextMonth, nextDayVal, 0, 0, 0))

\* the "advancing hour" blocks of getNextFireTime
nextAdvanceHour(yearValues, monthValues, maxYear, daySet, hourValues, nextYear, nextMonth, nextDay, nextHour) ==
  LET nextHourVal == getNextValue(hourValues, nextHour + 1)
  IN  IF nextHourVal = undefined
        THEN nextAdvanceDay(yearValues, monthValues, maxYear, daySet, nextYear, nextMonth, nextDay)
        ELSE Continue(fromObject(nextYear, nextMonth, nextDay, nextHourVal, 0, 0))

\* the "advancing minute" block of getNextFireTime
nextAdvanceMinute(yearValues, monthValues, maxYear, daySet, hourValues, minuteValues, nextYear, nextMonth, nextDay, nextHour, nextMinute) ==
  LET nextMinuteVal == getNextValue(minuteValues, nextMinute + 1)
  IN  IF nextMinuteVal = undefined
        THEN nextAdvanceHour(yearValues, monthValues, maxYear, daySet, hourValues,
                             nextYear, nextMonth, nextDay, nextHour)
        ELSE Continue(fromObject(nextYear, nextMonth, nextDay, nextHour, nextMinuteVal, 0))

\* the seconds of a cursor after which the forward search looks
secondAfter(d) == d.second + 1

\* the candidate check at the end of a pass of getNextFireTime
nextCandidate(obj, c) ==
  IF isMatch(obj, c) THEN Return(c) ELSE Continue(plusSecond(c))

\* one pass of the while loop of getNextFireTime
nextPass(obj, d) ==
  LET maxYear     == nextMaxYear(obj)
      yearValues  == IF Len(obj.years.values) > 0 THEN obj.years.values
                     ELSE arrayFrom(minDomainYear, maxYear)
      nextYear    == getNextValue(yearValues, d.year)
      yearChanged == nextYear # d.year
      monthValues == monthValuesOf(obj)
      nextMonth   == IF yearChanged THEN first(monthValues)
                     ELSE orElse(getNextValue(monthValues, d.month), first(monthValues))
      monthChanged == nextMonth # d.month \/ yearChanged
      daySet      == getDayOfMonthSet(obj, nextYear, nextMonth)
      nextDay     == IF monthChanged THEN first(daySet)
                     ELSE orElse(getNextValue(daySet, d.day), first(daySet))
      dayChanged  == nextDay # d.day \/ monthChanged
      hourValues  == hourValuesOf(obj)
      nextHour    == IF dayChanged THEN first(hourValues)
                     ELSE orElse(getNextValue(hourValues, d.hour), first(hourValues))
      hourChanged == nextHour # d.hour \/ dayChanged
      minuteValues == minuteValuesOf(obj)
      nextMinute  == IF hourChanged THEN first(minuteValues)
                     ELSE orElse(getNextValue(minuteValues, d.minute), first(minuteValues))
      minuteChanged == nextMinute # d.minute \/ hourChanged
      secondValues == secondValuesOf(obj)
      nextSecond  == IF minuteChanged THEN first(secondValues)
                     ELSE orElse(getNextValue(secondValues, secondAfter(d)), first(secondValues))
  IN  IF nextYear = undefined THEN ReturnNull
      ELSE IF Len(daySet) = 0
        THEN nextAdvanceYear(yearValues, monthValues, maxYear, nextYear)
      ELSE IF nextHour = undefined
        THEN nextAdvanceDay(yearValues, monthValues, maxYear, daySet, nextYear, nextMonth, nextDay)
      ELSE IF nextMinute = undefined
        THEN nextAdvanceHour(yearValues, monthValues, maxYear, daySet, hourValues,
                             nextYear, nextMonth, nextDay, nextHour)
      ELSE IF nextSecond = undefined
        THEN nextAdvanceMinute(yearValues, monthValues, maxYear, daySet, hourValues, minuteValues,
                               nextYear, nextMonth, nextDay, nextHour, nextMinute)
      ELSE nextCandidate(obj, fromObject(nextYear, nextMonth, nextDay, nextHour, nextMinute, nextSecond))

\* the loop condition without the pass limit
nextLoopGuardUnlimited(obj, d, iter) ==
  ~invalidReason(d) /\ d.year <= nextMaxYear(obj)

\* the condition of the while loop of getNextFireTime
nextLoopGuard(obj, d, iter) ==
  iter < maxIter /\ ~invalidReason(d) /\ d.year <= nextMaxYear(obj)

\* the "advancing year" blocks of getPreviousFireTime
prevAdvanceYear(yearValues, monthValues, minYear, prevYear) ==
  LET prevYearVal == getPreviousValue(yearValues, prevYear - 1)
      prevMonth   == last(monthValues)
  IN  IF prevYearVal = undefined \/ prevYearVal < minYear THEN ReturnNull
      ELSE Continue(fromObject(prevYearVal, prevMonth,
                               daysInMonth(prevYearVal, prevMonth), 23, 59, 59))

\* the "advancing month" blocks of getPreviousFireTime
prevAdvanceMonth(yearValues, monthValues, minYear, prevYear, prevMonth) ==
  LET prevMonthVal == getPreviousValue(monthValues, prevMonth - 1)
  IN  IF prevMonthVal = undefined
        THEN prevAdvanceYear(yearValues, monthValues, minYear, prevYear)
        ELSE Continue(fromObject(prevYear, prevMonthVal,
                                 daysInMonth(prevYear, prevMonthVal), 23, 59, 59))

\* the "advancing day" blocks of getPreviousFireTime
prevAdvanceDay(yearValues, monthValues, minYear, daySet, prevYear, prevMonth, prevDay) ==
  LET prevDayVal == getPreviousValue(daySet, prevDay - 1)
  IN  IF prevDayVal = undefined
        THEN prevAdvanceMonth(yearValues, monthValues, minYear, prevYear, prevMonth)
        ELSE Continue(fromObject(prevYear, prevMonth, prevDayVal, 23, 59, 59))

\* the "advancing hour" blocks of getPreviousFireTime
prevAdvanceHour(yearValues, monthValues, minYear, daySet, hourValues, prevYear, prevMonth, prevDay, prevHour) ==
  LET prevHourVal == getPreviousValue(hourValues, prevHour - 1)
  IN  IF prevHourVal = undefined
        THEN prevAdvanceDay(yearValues, monthValues, minYear, daySet, prevYear, prevMonth, prevDay)
        ELSE Continue(fromObject(prevYear, prevMonth, prevDay, prevHourVal, 59, 59))

\* the "advancing minute" block of getPreviousFireTime
prevAdvanceMinute(yearValues, monthValues, minYear, daySet, hourValues, minuteValues, prevYear, prevMonth, prevDay, prevHour, prevMinute) ==
  LET prevMinuteVal == getPreviousValue(minuteValues, prevMinute - 1)
  IN  IF prevMinuteVal = undefined
        THEN prevAdvanceHour(yearValues, monthValues, minYear, daySet, hourValues,
                             prevYear, prevMonth, prevDay, prevHour)
        ELSE Continue(fromObject(prevYear, prevMonth, prevDay, prevHour, prevMinuteVal, 59))

\* the candidate check without the isMatch recheck
prevCandidateUnchecked(obj, c) == Return(c)

\* the candidate check at the end of a pass of getPreviousFireTime
prevCandidate(obj, c) ==
  IF isMatch(obj, c) THEN Return(c) ELSE Continue(minusSecond(c))

\* one pass of the while loop of getPreviousFireTime
prevPass(obj, d) ==
  LET minYear     == prevMinYear(obj)
      yearValues  == IF Len(obj.years.values) > 0 THEN obj.years.values
                     ELSE arrayFrom(minDomainYear, maxDomainYear)
      prevYear    == getPreviousValue(yearValues, d.year)
      yearChanged == prevYear < d.year
      monthValues == monthValuesOf(obj)
      prevMonth   == IF yearChanged THEN last(monthValues)
                     ELSE orElse(getPreviousValue(monthValues, d.month), last(monthValues))
      monthChanged == prevMonth < d.month \/ yearChanged
      daySet      == getDayOfMonthSet(obj, prevYear, prevMonth)
      prevDay     == IF monthChanged THEN last(daySet)
                     ELSE orElse(getPreviousValue(daySet, d.day), last(daySet))
      dayChanged  == prevDay < d.day \/ monthChanged
      hourValues  == hourValuesOf(obj)
      prevHour    == IF dayChanged THEN last(hourValues)
                     ELSE orElse(getPreviousValue(hourValues, d.hour), last(hourValues))
      hourChanged == prevHour < d.hour \/ dayChanged
      minuteValues == minuteValuesOf(obj)
      prevMinute  == IF hourChanged THEN last(minuteValues)
                     ELSE orElse(getPreviousValue(minuteValues, d.minute), last(minuteValues))
      minuteChanged == prevMinute < d.minute \/ hourChanged
      secondValues == secondValuesOf(obj)
      prevSecond  == IF minuteChanged THEN last(secondValues)
                     ELSE orElse(getPreviousValue(secondValues, d.second), last(secondValues))
  IN  IF prevYear = undefined THEN ReturnNull
      ELSE IF Len(daySet) = 0
        THEN prevAdvanceYear(yearValues, monthValues, minYear, prevYear)
      ELSE IF prevHour = undefined
        THEN prevAdvanceDay(yearValues, monthValues, minYear, daySet, prevYear, prevMonth, prevDay)
      ELSE IF prevMinute = undefined
        THEN prevAdvanceHour(yearValues, monthValues, minYear, daySet, hourValues,
                             prevYear, prevMonth, prevDay, prevHour)
      ELSE IF prevSecond = undefined
        THEN prevAdvanceMinute(yearValues, monthValues, minYear, daySet, hourValues, minuteValues,
                               prevYear, prevMonth, prevDay, prevHour, prevMinute)
      ELSE prevCandidate(obj, fromObject(prevYear, prevMonth, prevDay, prevHour, prevMinute, prevSecond))

\* the condition of the while loop of getPreviousFireTime
prevLoopGuard(obj, d, iter) ==
  iter < maxIter /\ ~invalidReason(d) /\ d.year >= prevMinYear(obj)

(***************************************************************************)
(* translate.  A description is a sequence of pieces of text; numbers are   *)
(* written out digit by digit.  parts holds the pushed descriptions, the    *)
(* empty ones included, as the array of translate does.                     *)
(***************************************************************************)

\* String(v) for an integer
String(v) == IF v < 0 THEN <<"-">> \o toString(0 - v) ELSE toString(v)

suffixes == <<"th", "st", "nd", "rd", "th", "th", "th", "th", "th", "th">>

ordinals == <<"first", "second", "third", "fourth", "fifth">>

\* the suffix the inline conditionals of describeDaysOfMonth choose
inlineSuffix(v) ==
  IF v % 10 = 1 THEN "st" ELSE IF v % 10 = 2 THEN "nd" ELSE IF v % 10 = 3 THEN "rd" ELSE "th"

\* dayNames[i], i counted from 0
dayName(vals) ==
  IF Len(vals) > 0 /\ vals[1] \in 0..6 THEN dayNames[vals[1] + 1] ELSE "undefined"

\* the callback of values.map in describeField
displayValue(v, step, name, formatter) ==
  IF formatter = "month" THEN <<monthNames[v]>>
  ELSE IF formatter = "day" THEN <<dayNames[v + 1]>>
  ELSE IF name = "day" /\ ~truthy(step)
    THEN String(v) \o <<IF v % 100 >= 11 /\ v % 100 <= 13 THEN "th" ELSE suffixes[(v % 10) + 1]>>
  ELSE String(v)

\* Array.prototype.join on texts
RECURSIVE join(_, _)
join(texts, sep) ==
  IF texts = <<>> THEN <<>>
  ELSE IF Len(texts) = 1 THEN texts[1]
  ELSE texts[1] \o <<sep>> \o join(Tail(texts), sep)

describeField(field, name, min, max, formatter) ==
  bind([i \in 1..Len(field.values) |-> displayValue(field.values[i], field.step, name, formatter)],
       LAMBDA displayValues :
    IF Len(field.values) = 0 THEN <<>>
    ELSE IF Len(field.values) = max - min + 1 /\ ~truthy(field.step) THEN <<>>
    ELSE IF truthy(field.step)
      THEN (IF Len(field.values) = ((max - min) \div field.step) + 1
              THEN <<"every ">> \o String(field.step) \o <<" ", name, "s">>
              ELSE <<"every ">> \o String(field.step) \o <<" ", name, "s from ">>
                     \o displayValues[1] \o <<" to ">> \o displayValues[Len(displayValues)])
    ELSE IF Len(field.values) = 1
      THEN (IF name = "day" THEN <<"on the ">> \o displayValues[1] \o <<" of the month">>
            ELSE <<"at ", name, " ">> \o displayValues[1]
                   \o (IF name = "second" THEN <<" of every minute">> ELSE <<>>))
    ELSE IF name = "day"
      THEN <<"on the ">> \o join(displayValues, " and ") \o <<" of the month">>
      ELSE <<"at ", name, "s ">> \o join(displayValues, " and "))

describeSeconds(obj) == describeField(obj.seconds, "second", 0, 59, "none")

describeMinutes(obj) == describeField(obj.minutes, "minute", 0, 59, "none")

describeHours(obj) ==
  IF Len(obj.hours.values) = 1 /\ Len(obj.minutes.values) = 1
     /\ ~truthy(obj.hours.step) /\ ~truthy(obj.minutes.step)
    THEN bind(obj.hours.values[1], LAMBDA hour :
         bind(obj.minutes.values[1], LAMBDA minute :
           <<"at time ">> \o String(IF hour % 12 = 0 THEN 12 ELSE hour % 12) \o <<":">>
             \o (IF minute < 10 THEN <<"0">> \o String(minute) ELSE String(minute))
             \o <<" ", IF hour < 12 THEN "AM" ELSE "PM">>))
    ELSE describeField(obj.hours, "hour", 0, 23, "none")

describeDaysOfMonth(obj) ==
  IF obj.dayOfMonthModifiers.lastDay
    THEN (IF truthy(obj.dayOfMonthModifiers.lastDayOffset)
            THEN <<"on the ">> \o String(obj.dayOfMonthModifiers.lastDayOffset)
                   \o <<"th-to-last day of the month">>
            ELSE <<"on the last day of the month">>)
  ELSE IF obj.dayOfMonthModifiers.lastWeekday
    THEN <<"on the last weekday of the month">>
  ELSE IF obj.dayOfMonthModifiers.nearestWeekday
    THEN bind(obj.daysOfMonth.values[1], LAMBDA v :
           <<"on the nearest weekday to the ">> \o String(v) \o <<inlineSuffix(v), " of the month">>)
  ELSE IF Len(obj.daysOfMonth.values) > 15 /\ truthy(obj.daysOfMonth.step)
    THEN bind(obj.daysOfMonth.values[1], LAMBDA v :
         bind(last(obj.daysOfMonth.values), LAMBDA w :
           <<"on every ">> \o String(obj.daysOfMonth.step) \o <<" days from the ">>
             \o String(v) \o <<inlineSuffix(v), " to the ">> \o String(w) \o <<inlineSuffix(w)>>))
  ELSE describeField(obj.daysOfMonth, "day", 1, 31, "none")

describeMonths(obj) == describeField(obj.months, "month", 1, 12, "month")

describeDaysOfWeek(obj) ==
  IF truthy(obj.dayOfWeekModifiers.nthDay)
    THEN <<"on the ", ordinals[obj.dayOfWeekModifiers.nthDay], " ",
           dayName(obj.daysOfWeek.values), " of the month">>
  ELSE IF obj.dayOfWeekModifiers.lastDay
    THEN <<"on the last ", dayName(obj.daysOfWeek.values), " of the month">>
  ELSE describeField(obj.daysOfWeek, "day", 0, 6, "day")

describeYears(obj) == describeField(obj.years, "year", 1970, 2099, "none")

\* the flags isMidnight and isFeb29 of translate
isMidnight(obj) ==
  /\ obj.seconds.values = <<0>>
  /\ obj.minutes.values = <<0>>
  /\ obj.hours.values = <<0>>

isFeb29(obj) == obj.daysOfMonth.values = <<29>> /\ obj.months.values = <<2>>

\* the condition under which translate pushes the description of seconds or minutes
notOnlyZero(field) ==
  truthy(field.step) \/ Len(field.values) > 1 \/ (Len(field.values) = 1 /\ field.values[1] # 0)

\* no day, weekday, month or year constraint
noDateConstraint(obj) ==
  /\ Len(obj.daysOfWeek.values) = 0
  /\ ~truthy(obj.dayOfWeekModifiers.nthDay)
  /\ ~obj.dayOfWeekModifiers.lastDay
  /\ Len(obj.months.values) = 0
  /\ Len(obj.years.values) = 0

\* the pushes of translate, block by block
timeParts(obj) ==
  bind((IF notOnlyZero(obj.seconds) THEN <<describeSeconds(obj)>> ELSE <<>>)
         \o (IF notOnlyZero(obj.minutes) THEN <<describeMinutes(obj)>> ELSE <<>>),
       LAMBDA parts :
    IF isMidnight(obj) /\ ~truthy(obj.seconds.step) /\ ~truthy(obj.minutes.step)
      THEN Append(parts, <<"at midnight">>)
    ELSE IF truthy(obj.hours.step) \/ Len(obj.hours.values) < 24
      THEN Append(parts, describeHours(obj))
    ELSE IF Len(parts) = 0 /\ Len(obj.daysOfMonth.values) = 0 /\ noDateConstraint(obj)
      THEN Append(parts, <<"every hour">>)
    ELSE parts)

dateParts(obj) ==
  (IF \/ obj.dayOfMonthModifiers.lastDay \/ obj.dayOfMonthModifiers.lastWeekday
      \/ obj.dayOfMonthModifiers.nearestWeekday \/ Len(obj.daysOfMonth.values) > 0 \/ isFeb29(obj)
     THEN (IF isFeb29(obj) THEN <<<<"on the 29th of February">>>> ELSE <<describeDaysOfMonth(obj)>>)
   ELSE IF noDateConstraint(obj) THEN <<<<"every day">>>>
   ELSE <<>>)
  \o (IF Len(obj.months.values) < 12 /\ ~isFeb29(obj) THEN <<describeMonths(obj)>> ELSE <<>>)
  \o (IF \/ truthy(obj.dayOfWeekModifiers.nthDay) \/ obj.dayOfWeekModifiers.lastDay
         \/ Len(obj.daysOfWeek.values) > 0
        THEN <<describeDaysOfWeek(obj)>> ELSE <<>>)
  \o (IF Len(obj.years.values) > 0 THEN <<describeYears(obj)>> ELSE <<>>)

translate(obj) ==
  bind(join(SelectSeq(timeParts(obj) \o dateParts(obj), LAMBDA part : part # <<>>), ", "),
       LAMBDA result : IF result = <<>> THEN <<"every second">> ELSE result)

(***************************************************************************)
(* The inputs: cron strings, given as the fields of                         *)
(* cronString.trim().split(/\s+/), and reference instants                   *)
(***************************************************************************)

\* `0 0 0 * * ?` : 6 fields; the test 'quartz: every day at 00:00:00'
EveryDayAtMidnight ==
  <<<<"0">>, <<"0">>, <<"0">>, <<"*">>, <<"*">>, <<"?">>>>

\* `0 0 12 1,15 * ?` : the test 'specific days of the month'
FirstAndFifteenthAtNoon ==
  <<<<"0">>, <<"0">>, <<"1", "2">>, <<"1", ",", "1", "5">>, <<"*">>, <<"?">>>>

\* `0 0 0 30 * ?` : a day that February does not have
ThirtiethOfEveryMonth ==
  <<<<"0">>, <<"0">>, <<"0">>, <<"3", "0">>, <<"*">>, <<"?">>>>

\* `0 0 0 * * MON` : day-of-month * with an explicit day-of-week
EveryMonday ==
  <<<<"0">>, <<"0">>, <<"0">>, <<"*">>, <<"*">>, <<"M", "O", "N">>>>

\* `0 12 1 * 1` : 5 fields, day-of-month 1 and day-of-week 1 both explicit
FiveFieldsBothDays ==
  <<<<"0">>, <<"1", "2">>, <<"1">>, <<"*">>, <<"1">>>>

\* `0 0 0 1 * 1,2` : the test 'invalid cron expression'
SixFieldsBothDays ==
  <<<<"0">>, <<"0">>, <<"0">>, <<"1">>, <<"*">>, <<"1", ",", "2">>>>

\* `0 0 0 1 * 1 2025` : 7 fields, both day fields explicit
SevenFieldsBothDays ==
  <<<<"0">>, <<"0">>, <<"0">>, <<"1">>, <<"*">>, <<"1">>, <<"2", "0", "2", "5">>>>

\* `0 0 0 31 FEB ?` : the test 'edge: invalid date (31st of February)'
ThirtyFirstOfFebruary ==
  <<<<"0">>, <<"0">>, <<"0">>, <<"3", "1">>, <<"F", "E", "B">>, <<"?">>>>

\* `0 0 12 1 APR ? 2025` : 7 fields; the test 'obscure: only in 2025 on April 1st'
AprilFirst2025 ==
  <<<<"0">>, <<"0">>, <<"1", "2">>, <<"1">>, <<"A", "P", "R">>, <<"?">>, <<"2", "0", "2", "5">>>>

\* `0 0 */2 1,15 JAN,FEB ?` : the test 'complex: every 2 hours on specific days and months'
EveryTwoHoursJanFeb ==
  <<<<"0">>, <<"0">>, <<"*", "/", "2">>, <<"1", ",", "1", "5">>, <<"J", "A", "N", ",", "F", "E", "B">>, <<"?">>>>

\* `0 * * * *` : 5 fields; the test 'regular cron: every hour at :00:00'
EveryHourFiveFields ==
  <<<<"0">>, <<"*">>, <<"*">>, <<"*">>, <<"*">>>>

\* `0 0 * *` : too few fields
FourFields ==
  <<<<"0">>, <<"0">>, <<"*">>, <<"*">>>>

\* `0 0 0 29 FEB ?` : the test 'common: yearly on February 29th at 00:00:00 (leap year)'
TwentyNinthOfFebruary ==
  <<<<"0">>, <<"0">>, <<"0">>, <<"2", "9">>, <<"F", "E", "B">>, <<"?">>>>

\* `0 0 0 ? * 2#2` : the test 'second Tuesday of month at 00:00:00'
SecondTuesday ==
  <<<<"0">>, <<"0">>, <<"0">>, <<"?">>, <<"*">>, <<"2", "#", "2">>>>

\* `0 0 0 ? * 5L` : the test 'last Friday of month at 00:00:00'
LastFriday ==
  <<<<"0">>, <<"0">>, <<"0">>, <<"?">>, <<"*">>, <<"5", "L">>>>

\* `59 59 23 31 12 ? 2099` : the test 'edge: maximum values (59 59 23 31 12 ? 2099)'
LastSecondOf2099 ==
  <<<<"5", "9">>, <<"5", "9">>, <<"2", "3">>, <<"3", "1">>, <<"1", "2">>, <<"?">>, <<"2", "0", "9", "9">>>>

\* `0 0 0 ? FEB MON#5` : the test 'edge: fifth Monday in short month'
FifthMondayOfFebruary ==
  <<<<"0">>, <<"0">>, <<"0">>, <<"?">>, <<"F", "E", "B">>, <<"M", "O", "N", "#", "5">>>>

Exprs ==
  {EveryDayAtMidnight,
   FirstAndFifteenthAtNoon,
   ThirtiethOfEveryMonth,
   EveryMonday,
   TwentyNinthOfFebruary,
   SecondTuesday,
   LastFriday,
   FiveFieldsBothDays,
   SixFieldsBothDays,
   SevenFieldsBothDays,
   ThirtyFirstOfFebruary,
   AprilFirst2025,
   LastSecondOf2099,
   FifthMondayOfFebruary,
   EveryTwoHoursJanFeb,
   EveryHourFiveFields,
   FourFields}

\* schedules written with the names of weekdays and months
AliasExprs ==
  {
   \* `0 0 0 ? JAN MON` : the test 'every Monday in January'
   <<<<"0">>, <<"0">>, <<"0">>, <<"?">>, <<"J", "A", "N">>, <<"M", "O", "N">>>>,
   \* `0 0 0 ? * SUN` : every SUN
   <<<<"0">>, <<"0">>, <<"0">>, <<"?">>, <<"*">>, <<"S", "U", "N">>>>,
   \* `0 0 0 ? * MON` : every MON
   <<<<"0">>, <<"0">>, <<"0">>, <<"?">>, <<"*">>, <<"M", "O", "N">>>>,
   \* `0 0 0 ? * TUE` : every TUE
   <<<<"0">>, <<"0">>, <<"0">>, <<"?">>, <<"*">>, <<"T", "U", "E">>>>,
   \* `0 0 0 ? * WED` : every WED
   <<<<"0">>, <<"0">>, <<"0">>, <<"?">>, <<"*">>, <<"W", "E", "D">>>>,
   \* `0 0 0 ? * THU` : every THU
   <<<<"0">>, <<"0">>, <<"0">>, <<"?">>, <<"*">>, <<"T", "H", "U">>>>,
   \* `0 0 0 ? * FRI` : every FRI
   <<<<"0">>, <<"0">>, <<"0">>, <<"?">>, <<"*">>, <<"F", "R", "I">>>>,
   \* `0 0 0 ? * SAT` : every SAT
   <<<<"0">>, <<"0">>, <<"0">>, <<"?">>, <<"*">>, <<"S", "A", "T">>>>,
   \* `0 0 0 1 JAN ?` : the first of JAN
   <<<<"0">>, <<"0">>, <<"0">>, <<"1">>, <<"J", "A", "N">>, <<"?">>>>,
   \* `0 0 0 1 FEB ?` : the first of FEB
   <<<<"0">>, <<"0">>, <<"0">>, <<"1">>, <<"F", "E", "B">>, <<"?">>>>,
   \* `0 0 0 1 MAR ?` : the first of MAR
   <<<<"0">>, <<"0">>, <<"0">>, <<"1">>, <<"M", "A", "R">>, <<"?">>>>,
   \* `0 0 0 1 APR ?` : the first of APR
   <<<<"0">>, <<"0">>, <<"0">>, <<"1">>, <<"A", "P", "R">>, <<"?">>>>,
   \* `0 0 0 1 MAY ?` : the first of MAY
   <<<<"0">>, <<"0">>, <<"0">>, <<"1">>, <<"M", "A", "Y">>, <<"?">>>>,
   \* `0 0 0 1 JUN ?` : the first of JUN
   <<<<"0">>, <<"0">>, <<"0">>, <<"1">>, <<"J", "U", "N">>, <<"?">>>>,
   \* `0 0 0 1 JUL ?` : the first of JUL
   <<<<"0">>, <<"0">>, <<"0">>, <<"1">>, <<"J", "U", "L">>, <<"?">>>>,
   \* `0 0 0 1 AUG ?` : the first of AUG
   <<<<"0">>, <<"0">>, <<"0">>, <<"1">>, <<"A", "U", "G">>, <<"?">>>>,
   \* `0 0 0 1 SEP ?` : the first of SEP
   <<<<"0">>, <<"0">>, <<"0">>, <<"1">>, <<"S", "E", "P">>, <<"?">>>>,
   \* `0 0 0 1 OCT ?` : the first of OCT
   <<<<"0">>, <<"0">>, <<"0">>, <<"1">>, <<"O", "C", "T">>, <<"?">>>>,
   \* `0 0 0 1 NOV ?` : the first of NOV
   <<<<"0">>, <<"0">>, <<"0">>, <<"1">>, <<"N", "O", "V">>, <<"?">>>>,
   \* `0 0 0 1 DEC ?` : the first of DEC
   <<<<"0">>, <<"0">>, <<"0">>, <<"1">>, <<"D", "E", "C">>, <<"?">>>>
  }

\* 2025-09-28T12:00:00 (a Sunday), the reference of the tests
FromOfTests == fromObject(2025, 9, 28, 12, 0, 0)

\* 2025-02-10T00:00:00 (a Monday)
FromFebruary == fromObject(2025, 2, 10, 0, 0, 0)

\* 2025-09-15T11:00:00 (a Monday), one hour before a fire time of `0 0 12 1,15 * ?`
FromBeforeNoon == fromObject(2025, 9, 15, 11, 0, 0)

\* 2026-03-02T00:00:00 (a Monday), a fire time of `0 0 0 * * MON`
FromMarch2026 == fromObject(2026, 3, 2, 0, 0, 0)

Refs == {FromOfTests, FromFebruary, FromBeforeNoon, FromMarch2026}

\* the number of calls made on one schedule
MaxCalls == 2

(***************************************************************************)
(* The state machine: construction, then calls of next, previous, isMatch  *)
(* and translate; the while loops of the searches advance one pass per     *)
(* step                                                                    *)
(***************************************************************************)

VARIABLES
  pc,       \* "new", "failed", "hung", "ready", "next", "previous", "done"
  fields,   \* the fields of the cron string given to the constructor
  obj,      \* the fields of the CronParser object
  error,    \* the message of the CronError of the constructor, "" when none
  op,       \* the method of the current call: "next", "previous", "isMatch", "translate", "none"
  from,     \* the argument of the current call
  d,        \* the cursor of the search
  iter,     \* the pass counter of the search
  result,   \* the outcome of the current call
  prior,    \* the previous call on this object: its method, argument and outcome
  calls     \* the number of calls begun on this object

vars == <<pc, fields, obj, error, op, from, d, iter, result, prior, calls>>

NoResult == [kind |-> "none", t |-> Invalid, err |-> "", text |-> <<>>]

\* return nextDt.toUnixInteger(), kept as the date-time it is the epoch second of
Returned(t) == [kind |-> "time", t |-> t, err |-> "", text |-> <<>>]

Thrown(msg) == [kind |-> "throw", t |-> Invalid, err |-> msg, text |-> <<>>]

\* the boolean a call of isMatch returns
Answered(b) == [kind |-> IF b THEN "true" ELSE "false", t |-> Invalid, err |-> "", text |-> <<>>]

\* the string a call of translate returns
Described(text) == [kind |-> "text", t |-> Invalid, err |-> "", text |-> text]

NoCall == [op |-> "none", from |-> Invalid, result |-> NoResult]

Init ==
  /\ pc = "new"
  /\ fields = <<>>
  /\ obj = InitialFields
  /\ error = ""
  /\ op = "none"
  /\ from = Invalid
  /\ d = Invalid
  /\ iter = 0
  /\ result = NoResult
  /\ prior = NoCall
  /\ calls = 0

\* the zone the schedules are constructed with
timeZone == "UTC"

\* new CronParser(cronString, timezone)
Construct(fs) ==
  /\ pc = "new"
  /\ LET r == parse(fs)
     IN  /\ pc' = IF r.kind = "ok" THEN "ready" ELSE IF r.kind = "throw" THEN "failed" ELSE "hung"
         /\ obj' = [r.obj EXCEPT !.timezone = timeZone]
         /\ error' = r.err
  /\ fields' = fs
  /\ UNCHANGED <<op, from, d, iter, result, prior, calls>>

\* next(from) up to the while loop of getNextFireTime
CallNext(t) ==
  /\ pc = "ready"
  /\ pc' = "next"
  /\ op' = "next"
  /\ from' = t
  /\ d' = t
  /\ iter' = 0
  /\ result' = NoResult
  /\ calls' = calls + 1
  /\ UNCHANGED <<fields, obj, error, prior>>

\* previous(from) up to the while loop of getPreviousFireTime
CallPrevious(t) ==
  /\ pc = "ready"
  /\ pc' = "previous"
  /\ op' = "previous"
  /\ from' = t
  /\ d' = minusSecond(t)
  /\ iter' = 0
  /\ result' = NoResult
  /\ calls' = calls + 1
  /\ UNCHANGED <<fields, obj, error, prior>>

\* reverse() applied to the array itself
reversedInPlace(vals) == [i \in 1..Len(vals) |-> vals[Len(vals) + 1 - i]]

\* what a pass of getPreviousFireTime leaves in an array it searched:
\* getPreviousValue reverses a copy (slice), never the array itself
afterGetPreviousValue(vals) == vals

\* the effect of a pass on the loop and the call
Outcome(o, method, msg) ==
  /\ iter' = iter + 1
  /\ IF o.kind = "continue"
       THEN /\ d' = o.d
            /\ UNCHANGED <<pc, result>>
       ELSE /\ pc' = "done"
            /\ d' = o.d
            /\ result' = IF o.kind = "return" THEN Returned(o.d) ELSE Thrown(msg)

\* one pass of the while loop of getNextFireTime
NextPass ==
  /\ pc = "next"
  /\ nextLoopGuard(obj, d, iter)
  /\ Outcome(nextPass(obj, d), "next", "No next execution time found")
  /\ UNCHANGED <<fields, obj, error, op, from, prior, calls>>

\* the while loop of getNextFireTime ends: return null, and next throws
NextExhausted ==
  /\ pc = "next"
  /\ ~nextLoopGuard(obj, d, iter)
  /\ pc' = "done"
  /\ result' = Thrown("No next execution time found")
  /\ UNCHANGED <<fields, obj, error, op, from, d, iter, prior, calls>>

\* one pass of the while loop of getPreviousFireTime
PreviousPass ==
  /\ pc = "previous"
  /\ prevLoopGuard(obj, d, iter)
  /\ Outcome(prevPass(obj, d), "previous", "No previous execution time found")
  /\ obj' = [obj EXCEPT !.years.values   = afterGetPreviousValue(@),
                        !.months.values  = afterGetPreviousValue(@),
                        !.hours.values   = afterGetPreviousValue(@),
                        !.minutes.values = afterGetPreviousValue(@),
                        !.seconds.values = afterGetPreviousValue(@)]
  /\ UNCHANGED <<fields, error, op, from, prior, calls>>

\* the while loop of getPreviousFireTime ends: return null, and previous throws
PreviousExhausted ==
  /\ pc = "previous"
  /\ ~prevLoopGuard(obj, d, iter)
  /\ pc' = "done"
  /\ result' = Thrown("No previous execution time found")
  /\ UNCHANGED <<fields, obj, error, op, from, d, iter, prior, calls>>

\* isMatch(dt), which returns at once
CallIsMatch(t) ==
  /\ pc = "ready"
  /\ pc' = "done"
  /\ op' = "isMatch"
  /\ from' = t
  /\ d' = t
  /\ iter' = 0
  /\ result' = Answered(isMatch(obj, t))
  /\ calls' = calls + 1
  /\ UNCHANGED <<fields, obj, error, prior>>

\* translate(), which returns at once; it may follow another call
CallTranslate ==
  /\ pc \in {"ready", "done"}
  /\ calls < MaxCalls
  /\ prior' = IF pc = "done" THEN [op |-> op, from |-> from, result |-> result] ELSE prior
  /\ pc' = "done"
  /\ op' = "translate"
  /\ from' = Invalid
  /\ d' = Invalid
  /\ iter' = 0
  /\ result' = Described(translate(obj))
  /\ calls' = calls + 1
  /\ UNCHANGED <<fields, obj, error>>

\* the state in which a call of the method with argument t starts
Start(method, t) ==
  /\ pc' = IF method \in {"isMatch", "translate"} THEN "done" ELSE method
  /\ d' = IF method = "previous" THEN minusSecond(t) ELSE t
  /\ iter' = 0
  /\ result' = IF method = "isMatch" THEN Answered(isMatch(obj, t))
                ELSE IF method = "translate" THEN Described(translate(obj))
                ELSE NoResult
  /\ calls' = calls + 1

\* the caller makes the same call once more on the same object
Repeat ==
  /\ pc = "done"
  /\ calls < MaxCalls
  /\ prior' = [op |-> op, from |-> from, result |-> result]
  /\ Start(op, from)
  /\ UNCHANGED <<fields, obj, error, op, from>>

\* the caller passes the instant a call returned to the same method
Feed ==
  /\ pc = "done"
  /\ calls < MaxCalls
  /\ result.kind = "time"
  /\ prior' = [op |-> op, from |-> from, result |-> result]
  /\ from' = result.t
  /\ Start(op, result.t)
  /\ UNCHANGED <<fields, obj, error, op>>

\* the caller, told by isMatch that `from` is a fire time, asks for next from
\* one second before it or for previous from one second after it
RoundTrip(method) ==
  /\ pc = "done"
  /\ calls < MaxCalls
  /\ op = "isMatch"
  /\ result.kind = "true"
  /\ prior' = [op |-> op, from |-> from, result |-> result]
  /\ op' = method
  /\ from' = IF method = "next" THEN minusSecond(from) ELSE plusSecond(from)
  /\ Start(method, from')
  /\ UNCHANGED <<fields, obj, error>>

Next ==
  \/ \E fs \in Exprs \cup AliasExprs : Construct(fs)
  \/ \E t \in Refs : CallNext(t)
  \/ \E t \in Refs : CallPrevious(t)
  \/ \E t \in Refs : CallIsMatch(t)
  \/ CallTranslate
  \/ NextPass
  \/ NextExhausted
  \/ PreviousPass
  \/ PreviousExhausted
  \/ Repeat
  \/ Feed
  \/ \E method \in {"next", "previous"} : RoundTrip(method)

Spec == Init /\ [][Next]_vars

(***************************************************************************)
(* The days of a month.  A second state machine constructs a schedule and  *)
(* asks isMatch for every day of one month; its schedules exercise the     *)
(* field grammar and the day modifiers without running a search.           *)
(***************************************************************************)

DayExprs ==
  {
   \* `0 */15 * * * ?` : the test 'every 15 minutes'
   <<<<"0">>, <<"*", "/", "1", "5">>, <<"*">>, <<"*">>, <<"*">>, <<"?">>>>,
   \* `0 */2 * 1-31/2 */2 ?` : the test 'edge: complex step and range'
   <<<<"0">>, <<"*", "/", "2">>, <<"*">>, <<"1", "-", "3", "1", "/", "2">>, <<"*", "/", "2">>, <<"?">>>>,
   \* `59 59 23 31 12 ? 2099` : the test 'edge: last second of year 2099'
   <<<<"5", "9">>, <<"5", "9">>, <<"2", "3">>, <<"3", "1">>, <<"1", "2">>, <<"?">>, <<"2", "0", "9", "9">>>>,
   \* `0 0 0 10-20 * ?` : a range of days
   <<<<"0">>, <<"0">>, <<"0">>, <<"1", "0", "-", "2", "0">>, <<"*">>, <<"?">>>>,
   \* `0 0 0 ? * 1-5` : a range of weekdays
   <<<<"0">>, <<"0">>, <<"0">>, <<"?">>, <<"*">>, <<"1", "-", "5">>>>,
   \* `0 0 0 ? * 7` : Sunday written 7
   <<<<"0">>, <<"0">>, <<"0">>, <<"?">>, <<"*">>, <<"7">>>>,
   \* `0 0 0 * 13 ?` : the test 'edge: invalid month value'
   <<<<"0">>, <<"0">>, <<"0">>, <<"*">>, <<"1", "3">>, <<"?">>>>,
   \* `0 0 0 ? * 8` : the test 'edge: invalid day-of-week value'
   <<<<"0">>, <<"0">>, <<"0">>, <<"?">>, <<"*">>, <<"8">>>>,
   \* `0 0 0 ? * 71` : a weekday far outside the domain
   <<<<"0">>, <<"0">>, <<"0">>, <<"?">>, <<"*">>, <<"7", "1">>>>,
   \* `0 0 0 20-10 * ?` : an inverted range
   <<<<"0">>, <<"0">>, <<"0">>, <<"2", "0", "-", "1", "0">>, <<"*">>, <<"?">>>>,
   \* `0 0 0-24 * * ?` : a range bound outside the domain
   <<<<"0">>, <<"0">>, <<"0", "-", "2", "4">>, <<"*">>, <<"*">>, <<"?">>>>,
   \* `60 0 0 * * ?` : a second outside the domain
   <<<<"6", "0">>, <<"0">>, <<"0">>, <<"*">>, <<"*">>, <<"?">>>>,
   \* `0 0 0 1 1 ? 2100` : a year outside the domain
   <<<<"0">>, <<"0">>, <<"0">>, <<"1">>, <<"1">>, <<"?">>, <<"2", "1", "0", "0">>>>,
   \* `0 */0 * * * ?` : the test 'edge: invalid step value'
   <<<<"0">>, <<"*", "/", "0">>, <<"*">>, <<"*">>, <<"*">>, <<"?">>>>,
   \* `0 0 0 1-10/0 * ?` : step zero on a range
   <<<<"0">>, <<"0">>, <<"0">>, <<"1", "-", "1", "0", "/", "0">>, <<"*">>, <<"?">>>>,
   \* `0 */-1 * * * ?` : a negative step
   <<<<"0">>, <<"*", "/", "-", "1">>, <<"*">>, <<"*">>, <<"*">>, <<"?">>>>,
   \* `0 0 0 1W * ?` : nearest weekday to the 1st
   <<<<"0">>, <<"0">>, <<"0">>, <<"1", "W">>, <<"*">>, <<"?">>>>,
   \* `0 0 0 15W * ?` : nearest weekday to the 15th
   <<<<"0">>, <<"0">>, <<"0">>, <<"1", "5", "W">>, <<"*">>, <<"?">>>>,
   \* `0 0 0 26W * ?` : the test 'nearest weekday to 26th at 00:00:00'
   <<<<"0">>, <<"0">>, <<"0">>, <<"2", "6", "W">>, <<"*">>, <<"?">>>>,
   \* `0 0 0 31W * ?` : nearest weekday to the 31st
   <<<<"0">>, <<"0">>, <<"0">>, <<"3", "1", "W">>, <<"*">>, <<"?">>>>,
   \* `0 0 0 LW * ?` : the test 'last weekday of month at 00:00:00'
   <<<<"0">>, <<"0">>, <<"0">>, <<"L", "W">>, <<"*">>, <<"?">>>>,
   \* `0 0 0 L * ?` : the test 'last day of month at 00:00:00'
   <<<<"0">>, <<"0">>, <<"0">>, <<"L">>, <<"*">>, <<"?">>>>,
   \* `0 0 0 L-0 * ?` : last day with offset 0
   <<<<"0">>, <<"0">>, <<"0">>, <<"L", "-", "0">>, <<"*">>, <<"?">>>>,
   \* `0 0 0 L-3 * ?` : three days before the last day
   <<<<"0">>, <<"0">>, <<"0">>, <<"L", "-", "3">>, <<"*">>, <<"?">>>>,
   \* `0 0 0 L-30 * ?` : thirty days before the last day
   <<<<"0">>, <<"0">>, <<"0">>, <<"L", "-", "3", "0">>, <<"*">>, <<"?">>>>,
   \* `0 0 0 ? * 2#2` : the test 'second Tuesday of month at 00:00:00'
   <<<<"0">>, <<"0">>, <<"0">>, <<"?">>, <<"*">>, <<"2", "#", "2">>>>,
   \* `0 0 0 ? * 5#1` : first Friday
   <<<<"0">>, <<"0">>, <<"0">>, <<"?">>, <<"*">>, <<"5", "#", "1">>>>,
   \* `0 0 0 ? * MON#5` : fifth Monday
   <<<<"0">>, <<"0">>, <<"0">>, <<"?">>, <<"*">>, <<"M", "O", "N", "#", "5">>>>,
   \* `0 0 0 ? * MON#6` : the test 'edge: invalid nth day of week'
   <<<<"0">>, <<"0">>, <<"0">>, <<"?">>, <<"*">>, <<"M", "O", "N", "#", "6">>>>,
   \* `0 0 0 ? * MON#0` : occurrence 0
   <<<<"0">>, <<"0">>, <<"0">>, <<"?">>, <<"*">>, <<"M", "O", "N", "#", "0">>>>,
   \* `0 0 0 ? * 5L` : the test 'last Friday of month at 00:00:00'
   <<<<"0">>, <<"0">>, <<"0">>, <<"?">>, <<"*">>, <<"5", "L">>>>,
   \* `0 0 0 ? * SUNL` : last Sunday
   <<<<"0">>, <<"0">>, <<"0">>, <<"?">>, <<"*">>, <<"S", "U", "N", "L">>>>,
   \* `0 0 0 ? * 3L` : last Wednesday
   <<<<"0">>, <<"0">>, <<"0">>, <<"?">>, <<"*">>, <<"3", "L">>>>,
   \* `0 0 0 L--1 * ?` : last day with the offset -1
   <<<<"0">>, <<"0">>, <<"0">>, <<"L", "-", "-", "1">>, <<"*">>, <<"?">>>>,
   \* `0 0 0 L-x * ?` : last day with an offset that is no number
   <<<<"0">>, <<"0">>, <<"0">>, <<"L", "-", "x">>, <<"*">>, <<"?">>>>,
   \* `0 12 * 6 *` : five fields: at noon of every day of June
   <<<<"0">>, <<"1", "2">>, <<"*">>, <<"6">>, <<"*">>>>
  }

\* the number of years whose months are examined, the first one a leap year
DaySpan == 2

DayYears == 2024..(2024 + DaySpan - 1)

\* the days a caller finds by asking isMatch for each day of a month
Resolved(days) == [kind |-> "days", t |-> Invalid, err |-> "", text |-> <<>>, days |-> days]

\* the days of (year, month) at whose midnight isMatch holds
matchingDays(o, year, month) ==
  SelectSeq(arrayFrom(1, 31), LAMBDA day : isMatch(o, fromObject(year, month, day, 0, 0, 0)))

\* isMatch called for the midnight of every day of a month
CallIsMatchForMonth(year, month) ==
  /\ pc = "ready"
  /\ pc' = "done"
  /\ op' = "days"
  /\ from' = fromObject(year, month, 1, 0, 0, 0)
  /\ d' = from'
  /\ iter' = 0
  /\ result' = Resolved(matchingDays(obj, year, month))
  /\ calls' = calls + 1
  /\ UNCHANGED <<fields, obj, error, prior>>

DayNext ==
  \/ \E fs \in DayExprs : Construct(fs)
  \/ \E year \in DayYears, month \in 1..12 : CallIsMatchForMonth(year, month)

DaySpec == Init /\ [][DayNext]_vars

(***************************************************************************)
(* Schedules and references in two zones                                   *)
(***************************************************************************)

\* the hours a zone is ahead of UTC in late September 2025, where
\* America/New_York keeps daylight time (-04:00)
offset == [zone \in {"UTC", "America/New_York"} |-> IF zone = "UTC" THEN 0 ELSE -4]

\* DateTime#setZone(zone, {keepLocalTime: true})
setZoneKeepingLocalTime(dt, zone) == [dt EXCEPT !.zone = zone]

\* DateTime#setZone(zone): the same instant with the local fields of the zone
setZone(dt, zone) ==
  LET h     == dt.hour + offset[zone] - offset[dt.zone]
      midn  == fromObject(dt.year, dt.month, dt.day, 0, 0, 0)
      other == IF h < 0 THEN minusSecond(midn)
               ELSE IF h > 23 THEN plusSecond([midn EXCEPT !.hour = 23, !.minute = 59, !.second = 59])
               ELSE midn
  IN  [year |-> other.year, month |-> other.month, day |-> other.day,
       hour |-> (h + 24) % 24, minute |-> dt.minute, second |-> dt.second, zone |-> zone]

\* the schedules constructed in both zones
ZoneExprs ==
  {
   \* `0 0 8 * * ?` : the test 'timezone: every day at 08:00:00 in America/New_York'
   <<<<"0">>, <<"0">>, <<"8">>, <<"*">>, <<"*">>, <<"?">>>>,
   \* `0 0 0 * * ?` : every day at midnight
   <<<<"0">>, <<"0">>, <<"0">>, <<"*">>, <<"*">>, <<"?">>>>,
   \* `0 30 22 * * ?` : every day at 22:30:00
   <<<<"0">>, <<"3", "0">>, <<"2", "2">>, <<"*">>, <<"*">>, <<"?">>>>,
   \* `0 0 */6 * * ?` : every six hours
   <<<<"0">>, <<"0">>, <<"*", "/", "6">>, <<"*">>, <<"*">>, <<"?">>>>,
   \* `0 0 12 ? * MON` : every Monday at noon
   <<<<"0">>, <<"0">>, <<"1", "2">>, <<"?">>, <<"*">>, <<"M", "O", "N">>>>,
   \* `0 0 8 * 9 ? 2024` : every day of September 2024 at 08:00:00
   <<<<"0">>, <<"0">>, <<"8">>, <<"*">>, <<"9">>, <<"?">>, <<"2", "0", "2", "4">>>>,
   \* `0 0 8 * 9 ? 2026` : every day of September 2026 at 08:00:00
   <<<<"0">>, <<"0">>, <<"8">>, <<"*">>, <<"9">>, <<"?">>, <<"2", "0", "2", "6">>>>
  }

\* new CronParser(cronString, timezone)
ConstructIn(fs, zone) ==
  /\ pc = "new"
  /\ LET r == parse(fs)
     IN  /\ pc' = IF r.kind = "ok" THEN "ready" ELSE IF r.kind = "throw" THEN "failed" ELSE "hung"
         /\ obj' = [r.obj EXCEPT !.timezone = zone]
         /\ error' = r.err
  /\ fields' = fs
  /\ UNCHANGED <<op, from, d, iter, result, prior, calls>>

\* next(from) or previous(from) up to the while loop, for the reference
\* DateTime.fromISO(t, {zone}): start = from.setZone(this.timezone); it may
\* follow another call
CallIn(method, t, zone) ==
  /\ pc \in {"ready", "done"}
  /\ calls < MaxCalls
  /\ prior' = IF pc = "done" THEN [op |-> op, from |-> from, result |-> result] ELSE prior
  /\ LET dt    == [year |-> t.year, month |-> t.month, day |-> t.day,
                   hour |-> t.hour, minute |-> t.minute, second |-> t.second, zone |-> zone]
         z     == setZone(dt, obj.timezone)
         start == fromObject(z.year, z.month, z.day, z.hour, z.minute, z.second)
     IN  /\ from' = dt
         /\ d' = IF method = "previous" THEN minusSecond(start) ELSE start
  /\ pc' = method
  /\ op' = method
  /\ iter' = 0
  /\ result' = NoResult
  /\ calls' = calls + 1
  /\ UNCHANGED <<fields, obj, error>>

ZoneNext ==
  \/ \E fs \in ZoneExprs, zone \in DOMAIN offset : ConstructIn(fs, zone)
  \/ \E method \in {"next", "previous"}, zone \in DOMAIN offset :
       \E t \in {FromOfTests, fromObject(2025, 9, 28, 8, 0, 0),
                 fromObject(2025, 9, 28, 2, 0, 0), fromObject(2025, 9, 27, 22, 0, 0)} :
         CallIn(method, t, zone)
  \/ NextPass
  \/ NextExhausted
  \/ PreviousPass
  \/ PreviousExhausted

ZoneSpec == Init /\ [][ZoneNext]_vars

(***************************************************************************)
(* Vocabulary of the properties                                            *)
(***************************************************************************)

\* the number of years before and after the reference in which fire times are looked for
ProbeSpan == 1

Before(a, b) == EpochLess(toUnixInteger(a), toUnixInteger(b))

elements(vals) == {vals[i] : i \in 1..Len(vals)}

\* v is allowed by a field set: the set holds it, or the field is unconstrained
Allows(vals, v) == Len(vals) = 0 \/ v \in elements(vals)

\* the weekday of the date satisfies the day-of-week constraint or modifier
WeekdayAllowed(o, year, month, day) ==
  LET w == dowOf(year, month, day)
  IN  IF truthy(o.dayOfWeekModifiers.nthDay)
        THEN /\ Len(o.daysOfWeek.values) > 0
             /\ w = o.daysOfWeek.values[1]
             /\ Cardinality({k \in 1..day : dowOf(year, month, k) = w}) = o.dayOfWeekModifiers.nthDay
      ELSE IF o.dayOfWeekModifiers.lastDay
        THEN /\ Len(o.daysOfWeek.values) > 0
             /\ w = o.daysOfWeek.values[1]
             /\ day + 7 > daysInMonth(year, month)
      ELSE Allows(o.daysOfWeek.values, w)

\* the instant satisfies every constraint of the schedule
Satisfies(o, t) ==
  /\ ~invalidReason(t)
  /\ Allows(o.years.values, t.year)
  /\ Allows(o.months.values, t.month)
  /\ t.day \in elements(getDayOfMonthSet(o, t.year, t.month))
  /\ WeekdayAllowed(o, t.year, t.month, t.day)
  /\ Allows(o.hours.values, t.hour)
  /\ Allows(o.minutes.values, t.minute)
  /\ Allows(o.seconds.values, t.second)

ends(vals) == {first(vals), last(vals)}

\* fire times of the schedule in the given year: every day that satisfies the
\* constraints, at the first and the last time of day the schedule allows
FireTimes(o, year) ==
  IF ~Allows(o.years.values, year) \/ year < minDomainYear \/ year > maxDomainYear THEN {}
  ELSE UNION {
         {fromObject(year, m, dd, h, mi, sc) :
            dd \in {x \in elements(getDayOfMonthSet(o, year, m)) :
                      x >= 1 /\ x <= daysInMonth(year, m) /\ WeekdayAllowed(o, year, m, x)},
            h  \in ends(hourValuesOf(o)),
            mi \in ends(minuteValuesOf(o)),
            sc \in ends(secondValuesOf(o))} :
         m \in elements(monthValuesOf(o))}

\* the fire times near the reference of the current call
Probes == UNION {FireTimes(obj, y) : y \in (from.year - ProbeSpan)..(from.year + ProbeSpan)}

NextReturned == pc = "done" /\ op = "next" /\ result.kind = "time"

PreviousReturned == pc = "done" /\ op = "previous" /\ result.kind = "time"

(***************************************************************************)
(* C1 - C6: the results of next and previous                               *)
(***************************************************************************)

\* C1: when next(T) returns an instant, the instant is strictly later than T.
C1_NextIsAfterReference ==
  NextReturned => Before(from, result.t)

\* C2: when previous(T) returns an instant, the instant is not later than T.
C2_PreviousIsNotAfterReference ==
  PreviousReturned => ~Before(from, result.t)

\* C3: no fire time lies strictly between T and next(T), nor strictly between
\* previous(T) and T.
C3_NearestMatch ==
  /\ NextReturned =>
       \A m \in Probes : ~(Before(from, m) /\ Before(m, result.t))
  /\ PreviousReturned =>
       \A m \in Probes : ~(Before(result.t, m) /\ Before(m, from))

C5_NextIsMonotonic ==
  ( /\ NextReturned
    /\ prior.op = "next"
    /\ prior.result.kind = "time"
    /\ from = prior.result.t )
  => Before(prior.result.t, result.t)

\* C6: next(T) throws only if no fire time exists after T up to the end of the
\* bounding year, and previous(T) throws only if none exists before T down to
\* the start of the bounding year.
C6_ThrowsOnlyWithoutFireTime ==
  /\ (pc = "done" /\ op = "next" /\ result.kind = "throw") =>
       \A m \in Probes : ~(Before(from, m) /\ m.year <= nextMaxYear(obj))
  /\ (pc = "done" /\ op = "previous" /\ result.kind = "throw") =>
       \A m \in Probes : ~(Before(m, from) /\ m.year >= prevMinYear(obj))

(***************************************************************************)
(* C7, C8: the object after construction, and the length of a search       *)
(***************************************************************************)

Searching == pc \in {"next", "previous"}

\* C7: after construction no call of next, previous, isMatch or translate
\* changes a field value set, a modifier flag or the timezone, and a call
\* repeated with the same argument returns what it returned before.
C7_ScheduleIsImmutable ==
  [][ /\ (pc # "new" => obj' = obj)
      /\ ( ( /\ pc' = "done"
             /\ prior'.op = op'
             /\ prior'.from = from' )
           => result' = prior'.result ) ]_vars

\* a repeated previous(T) on a schedule with several months and hours has
\* returned the same instant again
C7_Witness ==
  /\ PreviousReturned
  /\ prior.op = "previous"
  /\ prior.from = from
  /\ prior.result = result
  /\ Len(obj.months.values) > 1
  /\ Len(obj.hours.values) > 1

\* C8: a search makes at most 10,000 passes of its loop and then returns an
\* instant or throws: from a state inside a search every step either ends the
\* call with an instant or a CronError, or is one more pass within the limit.
C8_SearchTerminates ==
  [][ Searching =>
        /\ iter <= maxIter
        /\ \/ (pc' = "done" /\ result'.kind \in {"time", "throw"})
           \/ (pc' = pc /\ iter' = iter + 1 /\ iter' <= maxIter) ]_vars

\* a search that used all 10,000 passes and then threw
C8_Witness ==
  pc = "done" /\ op = "next" /\ iter = maxIter /\ result.kind = "throw"

(***************************************************************************)
(* C9, C10: the cross-field checks of the constructor                      *)
(***************************************************************************)

\* the day-of-month and the day-of-week field of the expression, by field count
domField == fields[IF Len(fields) > 5 THEN 4 ELSE 3]

dowField == fields[IF Len(fields) > 5 THEN 6 ELSE 5]

monthField == fields[IF Len(fields) > 5 THEN 5 ELSE 4]

\* the field carries an explicit value set: not a wildcard, no modifier, and
\* its values parse in the domain of the field
ExplicitSet(field, type, lo, hi) ==
  /\ field # <<"*">> /\ field # <<"?">>
  /\ ~includes(field, "L") /\ ~includes(field, "W") /\ ~includes(field, "#")
  /\ parseField(normalizeField(field, type), lo, hi).kind = "ok"

\* C9: an expression of 5, 6 or 7 fields whose day-of-month and day-of-week
\* fields both carry explicit value sets, neither with a modifier, fails
\* construction with the day-of-month/day-of-week conflict error.
C9_ExclusivityEnforced ==
  ( /\ pc # "new"
    /\ Len(fields) \in 5..7
    /\ ExplicitSet(domField, "dayofmonth", 1, 31)
    /\ ExplicitSet(dowField, "dayofweek", 0, 6) )
  => ( /\ pc = "failed"
       /\ error = "Both day-of-month and day-of-week cannot be specified unless one is * or ?" )

\* the largest day the month can have in any year
MaxPlausibleDay(month) ==
  IF month = 2 THEN 29 ELSE IF month \in {4, 6, 9, 11} THEN 30 ELSE 31

\* C10: when an explicit day-of-month value exceeds the largest day of a month
\* of the month set, construction fails with the invalid-date error.
C10_ImpossibleDateRejected ==
  ( /\ pc # "new"
    /\ Len(fields) \in 5..7
    /\ ExplicitSet(domField, "dayofmonth", 1, 31)
    /\ ExplicitSet(monthField, "month", 1, 12)
    /\ \E dd \in elements(parseField(normalizeField(domField, "dayofmonth"), 1, 31).values) :
       \E m \in elements(parseField(normalizeField(monthField, "month"), 1, 12).values) :
          dd > MaxPlausibleDay(m) )
  => (pc = "failed" /\ error = "Invalid date")

(***************************************************************************)
(* C11: 29 February                                                        *)
(***************************************************************************)

\* 29 February of a leap year, at the time of day of `0 0 0 29 FEB ?`
LeapDay(year) == fromObject(year, 2, 29, 0, 0, 0)

LeapYears == {y \in minDomainYear..maxDomainYear : isLeap(y)}

\* C11: `0 0 0 29 FEB ?` constructs; next(T) is 29 February of the earliest
\* leap year whose fire time is after T, previous(T) is 29 February of the
\* latest leap year whose fire time is not after T; no result lies in a
\* non-leap year.
C11_LeapYearSkipping ==
  (pc # "new" /\ fields = TwentyNinthOfFebruary) =>
    /\ pc \notin {"failed", "hung"}
    /\ NextReturned =>
         \E y \in LeapYears :
            /\ result.t = LeapDay(y)
            /\ Before(from, result.t)
            /\ \A z \in LeapYears : z < y => ~Before(from, LeapDay(z))
    /\ PreviousReturned =>
         \E y \in LeapYears :
            /\ result.t = LeapDay(y)
            /\ ~Before(from, result.t)
            /\ \A z \in LeapYears : z > y => Before(from, LeapDay(z))

(***************************************************************************)
(* C12: the domains of the fields                                          *)
(***************************************************************************)

IsNumeral(s) == Len(s) > 0 /\ \A i \in 1..Len(s) : isDigit(s[i])

\* the number a decimal numeral denotes
RECURSIVE Decimal(_)
Decimal(s) == IF s = <<>> THEN 0 ELSE 10 * Decimal(dropLast(s)) + digitValue(s[Len(s)])

\* the text is a single value outside lo..hi, or a range a-b with a bound
\* outside lo..hi or with a > b
OutOfDomain(s, lo, hi) ==
  \/ IsNumeral(s) /\ Decimal(s) \notin lo..hi
  \/ \E i \in 2..(Len(s) - 1) :
        /\ s[i] = "-"
        /\ IsNumeral(SubSeq(s, 1, i - 1)) /\ IsNumeral(SubSeq(s, i + 1, Len(s)))
        /\ \/ Decimal(SubSeq(s, 1, i - 1)) < lo
           \/ Decimal(SubSeq(s, i + 1, Len(s))) > hi
           \/ Decimal(SubSeq(s, 1, i - 1)) > Decimal(SubSeq(s, i + 1, Len(s)))

\* the fields of the expression, each with the domain of its position; the
\* weekday numerals are 0..7, Sunday being written 0 or 7
WrittenFields ==
  LET k == IF Len(fields) > 5 THEN 1 ELSE 0
  IN  {[text |-> fields[k + 1], lo |-> 0, hi |-> 59],
       [text |-> fields[k + 2], lo |-> 0, hi |-> 23],
       [text |-> fields[k + 3], lo |-> 1, hi |-> 31],
       [text |-> fields[k + 4], lo |-> 1, hi |-> 12],
       [text |-> fields[k + 5], lo |-> 0, hi |-> 7]}
      \cup (IF k = 1 THEN {[text |-> fields[1], lo |-> 0, hi |-> 59]} ELSE {})
      \cup (IF Len(fields) = 7
              THEN {[text |-> fields[7], lo |-> minDomainYear, hi |-> maxDomainYear]}
              ELSE {})

StoredInDomain ==
  /\ elements(obj.seconds.values) \subseteq 0..59
  /\ elements(obj.minutes.values) \subseteq 0..59
  /\ elements(obj.hours.values) \subseteq 0..23
  /\ elements(obj.daysOfMonth.values) \subseteq 1..31
  /\ elements(obj.months.values) \subseteq 1..12
  /\ elements(obj.daysOfWeek.values) \subseteq 0..6
  /\ elements(obj.years.values) \subseteq minDomainYear..maxDomainYear

\* C12: after a successful construction every stored value lies in the domain
\* of its field, and an expression with a single value or a range bound
\* outside the domain of its field, or with an inverted range, fails
\* construction with a CronError.
C12_DomainInvariant ==
  (pc # "new" /\ Len(fields) \in 5..7) =>
    /\ pc \in {"ready", "done"} => StoredInDomain
    /\ (\E f \in WrittenFields : OutOfDomain(f.text, f.lo, f.hi)) => pc = "failed"

(***************************************************************************)
(* C13: steps                                                              *)
(***************************************************************************)

\* the text holds a step `/s` whose s is a numeral denoting zero or a
\* numeral with a minus sign
StepNotPositive(s) ==
  \E i \in 1..(Len(s) - 1) :
     /\ s[i] = "/"
     /\ \/ IsNumeral(SubSeq(s, i + 1, Len(s))) /\ Decimal(SubSeq(s, i + 1, Len(s))) = 0
        \/ s[i + 1] = "-" /\ IsNumeral(SubSeq(s, i + 2, Len(s)))

\* C13: an expression with a stepped token whose step is zero or negative
\* ends construction with the CronError of an invalid step; it neither builds
\* a schedule nor keeps enumerating values.
C13_StepRejected ==
  (pc # "new" /\ \E i \in 1..Len(fields) : StepNotPositive(fields[i])) =>
    pc = "failed" /\ error = "Invalid step value"

(***************************************************************************)
(* C14: the two wildcards                                                  *)
(***************************************************************************)

\* the other way of writing a wildcard; any other field is left as it is
otherWildcard(field) ==
  IF field = <<"*">> THEN <<"?">> ELSE IF field = <<"?">> THEN <<"*">> ELSE field

\* the expressions that differ from fs only in which wildcard is written in
\* the day-of-month field or in the day-of-week field
Twins(fs) ==
  LET dom == IF Len(fs) > 5 THEN 4 ELSE 3
      dow == IF Len(fs) > 5 THEN 6 ELSE 5
  IN  {[fs EXCEPT ![dom] = otherWildcard(@)],
       [fs EXCEPT ![dow] = otherWildcard(@)],
       [fs EXCEPT ![dom] = otherWildcard(@), ![dow] = otherWildcard(@)]} \ {fs}

\* the schedule `new CronParser(fs, timeZone)` holds
Constructed(fs) == [parse(fs).obj EXCEPT !.timezone = timeZone]

\* the search of method from t on schedule o returns x in its first pass
ReturnsAtOnce(o, method, t, x) ==
  IF method = "next"
    THEN nextLoopGuard(o, t, 0) /\ nextPass(o, t) = Return(x)
    ELSE prevLoopGuard(o, minusSecond(t), 0) /\ prevPass(o, minusSecond(t)) = Return(x)

\* C14: two expressions that differ only in writing `*` or `?` in the
\* day-of-month or day-of-week field have the same construction outcome, the
\* same translate() string, and the same next(T) and previous(T): when the
\* search on the one returns an instant, the call on the other returns it.
C14_WildcardsAreEqual ==
  (pc \in {"ready", "failed", "hung", "done"} /\ Len(fields) \in 5..7) =>
    \A tw \in Twins(fields) :
       /\ pc = "failed" <=> parse(tw).kind = "throw"
       /\ pc = "hung" <=> parse(tw).kind = "hang"
       /\ pc = "failed" => error = parse(tw).err
       /\ (pc = "done" /\ op = "translate") => result.text = translate(Constructed(tw))
       /\ (pc = "done" /\ op \in {"next", "previous"}) =>
            \A x \in {nextPass(Constructed(tw), from).d, prevPass(Constructed(tw), minusSecond(from)).d} :
               ReturnsAtOnce(Constructed(tw), op, from, x) => result = Returned(x)

(***************************************************************************)
(* C15: the omitted year                                                   *)
(***************************************************************************)

SearchWindow == minDomainYear..maxDomainYear

DaysResolved == pc = "done" /\ op = "days"

IsWeekday(year, month, day) == dowOf(year, month, day) \in 1..5

\* C16: for `NW` and a month in which day N exists, the effective day is one
\* Monday-to-Friday day of that month: N when N is a weekday, the Friday
\* before a Saturday N, the Monday after a Sunday N; it never lies outside
\* the month and never on a Saturday or Sunday.
C16_NearestWeekday ==
  (/\ DaysResolved
   /\ obj.dayOfMonthModifiers.nearestWeekday
   /\ Len(obj.daysOfMonth.values) = 1
   /\ obj.daysOfMonth.values[1] <= daysInMonth(from.year, from.month)) =>
    /\ Len(result.days) = 1
    /\ result.days[1] \in 1..daysInMonth(from.year, from.month)
    /\ IsWeekday(from.year, from.month, result.days[1])
    /\ IsWeekday(from.year, from.month, obj.daysOfMonth.values[1]) =>
         result.days[1] = obj.daysOfMonth.values[1]
    /\ (dowOf(from.year, from.month, obj.daysOfMonth.values[1]) = 6 /\ obj.daysOfMonth.values[1] > 1) =>
         result.days[1] = obj.daysOfMonth.values[1] - 1
    /\ (/\ dowOf(from.year, from.month, obj.daysOfMonth.values[1]) = 0
        /\ obj.daysOfMonth.values[1] < daysInMonth(from.year, from.month)) =>
         result.days[1] = obj.daysOfMonth.values[1] + 1

\* the month of `from` has this many days
MonthLength == daysInMonth(from.year, from.month)

\* C17: for `LW` the effective day set of every month is the single latest
\* Monday-to-Friday day of the month: the last day, the day before it when
\* the last day is a Saturday, two days before it when it is a Sunday.
C17_LastWeekday ==
  (DaysResolved /\ obj.dayOfMonthModifiers.lastWeekday /\ domField = <<"L", "W">>) =>
    /\ Len(result.days) = 1
    /\ result.days[1] \in 1..MonthLength
    /\ IsWeekday(from.year, from.month, result.days[1])
    /\ \A later \in (result.days[1] + 1)..MonthLength : ~IsWeekday(from.year, from.month, later)
    /\ result.days[1] = MonthLength - (CASE dowOf(from.year, from.month, MonthLength) = 6 -> 1
                                         [] dowOf(from.year, from.month, MonthLength) = 0 -> 2
                                         [] OTHER -> 0)

\* a month that ends on a Sunday: the last weekday is the Friday
C17_Witness ==
  /\ DaysResolved
  /\ domField = <<"L", "W">>
  /\ dowOf(from.year, from.month, MonthLength) = 0
  /\ result.days = <<MonthLength - 2>>

\* the number N of the day-of-month token `L` (0) or `L-N`
WrittenOffset ==
  IF domField = <<"L">> THEN 0 ELSE Decimal(SubSeq(domField, 3, Len(domField)))

\* C18: for `L` the effective day set of every month is the last day of the
\* month, 29 February in a leap year; for `L-N`, N >= 0, it is the day N days
\* before the last one when that is at least 1 and empty otherwise.
C18_LastDay ==
  (/\ DaysResolved
   /\ \/ domField = <<"L">>
      \/ /\ Len(domField) > 2
         /\ SubSeq(domField, 1, 2) = <<"L", "-">>
         /\ IsNumeral(SubSeq(domField, 3, Len(domField)))) =>
    result.days = IF MonthLength - WrittenOffset >= 1
                    THEN <<MonthLength - WrittenOffset>> ELSE <<>>

\* three days before the last day of the February of a leap year
C18_Witness ==
  /\ DaysResolved
  /\ domField = <<"L", "-", "3">>
  /\ from.month = 2 /\ MonthLength = 29
  /\ result.days = <<26>>

\* the three-letter names of the weekdays, Sunday first
WeekdayAbbreviations ==
  <<<<"S", "U", "N">>, <<"M", "O", "N">>, <<"T", "U", "E">>, <<"W", "E", "D">>,
    <<"T", "H", "U">>, <<"F", "R", "I">>, <<"S", "A", "T">>>>

IsWeekdayText(text) ==
  \/ IsNumeral(text) /\ Decimal(text) \in 0..7
  \/ \E i \in 1..7 : WeekdayAbbreviations[i] = text

\* the weekday a numeral or a name denotes, 0 = Sunday (also written 7)
WrittenWeekday(text) ==
  IF IsNumeral(text) THEN Decimal(text) % 7
  ELSE (CHOOSE i \in 1..7 : WeekdayAbbreviations[i] = text) - 1

\* the day-of-week field is `W#N`: its two parts
HasNth == \E i \in 2..(Len(dowField) - 1) : dowField[i] = "#"

NthWeekdayText == SubSeq(dowField, 1, (CHOOSE i \in 1..Len(dowField) : dowField[i] = "#") - 1)

WrittenNth ==
  Decimal(SubSeq(dowField, (CHOOSE i \in 1..Len(dowField) : dowField[i] = "#") + 1, Len(dowField)))

\* the days of the month of `from` with weekday w
Occurrences(w) == {day \in 1..MonthLength : dowOf(from.year, from.month, day) = w}

\* C19: for `W#N` with N in 1..5 the effective day set of every month is the
\* single N-th day with weekday W, empty when the month has fewer than N such
\* days; an N outside 1..5 fails construction with a CronError.
C19_NthWeekday ==
  (/\ pc # "new"
   /\ Len(fields) \in 5..7
   /\ HasNth
   /\ IsWeekdayText(NthWeekdayText)
   /\ IsNumeral(SubSeq(dowField, Len(NthWeekdayText) + 2, Len(dowField)))) =>
    /\ WrittenNth \notin 1..5 => pc = "failed"
    /\ WrittenNth \in 1..5 => pc # "failed"
    /\ (DaysResolved /\ WrittenNth \in 1..5) =>
         /\ \A i \in 1..Len(result.days) :
               /\ result.days[i] \in Occurrences(WrittenWeekday(NthWeekdayText))
               /\ Cardinality({e \in Occurrences(WrittenWeekday(NthWeekdayText)) : e <= result.days[i]})
                    = WrittenNth
         /\ Len(result.days) =
              IF Cardinality(Occurrences(WrittenWeekday(NthWeekdayText))) >= WrittenNth THEN 1 ELSE 0

\* the second Tuesday of a month that begins on a Wednesday is the 14th
C19_Witness ==
  /\ DaysResolved
  /\ dowField = <<"2", "#", "2">>
  /\ result.days = <<14>>

\* C20: for `WL` the effective day set of every month is the single latest
\* day of the month with weekday W: the day d with weekday W for which d + 7
\* exceeds the length of the month.
C20_LastOccurrence ==
  (/\ DaysResolved
   /\ Len(dowField) > 1 /\ dowField[Len(dowField)] = "L"
   /\ IsWeekdayText(dropLast(dowField))) =>
    /\ Len(result.days) = 1
    /\ result.days[1] \in Occurrences(WrittenWeekday(dropLast(dowField)))
    /\ result.days[1] + 7 > MonthLength

\* the last Friday of the February of a leap year
C20_Witness ==
  /\ DaysResolved
  /\ dowField = <<"5", "L">>
  /\ from.month = 2 /\ MonthLength = 29
  /\ result.days = <<23>>

(***************************************************************************)
(* C21: the names of weekdays and months                                   *)
(***************************************************************************)

\* the three-letter names of the months, January first
MonthAbbreviations ==
  <<<<"J", "A", "N">>, <<"F", "E", "B">>, <<"M", "A", "R">>, <<"A", "P", "R">>,
    <<"M", "A", "Y">>, <<"J", "U", "N">>, <<"J", "U", "L">>, <<"A", "U", "G">>,
    <<"S", "E", "P">>, <<"O", "C", "T">>, <<"N", "O", "V">>, <<"D", "E", "C">>>>

IsNameIn(table, text) == \E i \in 1..Len(table) : table[i] = text

PlaceIn(table, text) == CHOOSE i \in 1..Len(table) : table[i] = text

\* the decimal numeral of a number below 100
Numeral(n) ==
  IF n < 10 THEN <<Digits[n + 1]>> ELSE <<Digits[(n \div 10) + 1], Digits[(n % 10) + 1]>>

\* the expression with its weekday name and its month name written as numbers
WrittenWithNumbers(fs) ==
  LET month == IF Len(fs) > 5 THEN 5 ELSE 4
      dow   == IF Len(fs) > 5 THEN 6 ELSE 5
  IN  [fs EXCEPT
         ![month] = IF IsNameIn(MonthAbbreviations, @)
                      THEN Numeral(PlaceIn(MonthAbbreviations, @)) ELSE @,
         ![dow]   = IF IsNameIn(WeekdayAbbreviations, @)
                      THEN Numeral(PlaceIn(WeekdayAbbreviations, @) - 1) ELSE @]

\* C21: a schedule whose day-of-week field is a weekday name returns from
\* next and previous only instants on that weekday, one whose month field is
\* a month name only instants of that month, and both hold the schedule that
\* the expression written with the numbers of the names constructs, so every
\* call answers the same on the two.
C21_AliasesAreConsistent ==
  (/\ pc # "new"
   /\ Len(fields) \in 5..7
   /\ IsNameIn(WeekdayAbbreviations, dowField) \/ IsNameIn(MonthAbbreviations, monthField)) =>
    /\ pc \notin {"failed", "hung"}
    /\ obj = Constructed(WrittenWithNumbers(fields))
    /\ (NextReturned \/ PreviousReturned) =>
         /\ IsNameIn(WeekdayAbbreviations, dowField) =>
              dowOf(result.t.year, result.t.month, result.t.day)
                = PlaceIn(WeekdayAbbreviations, dowField) - 1
         /\ IsNameIn(MonthAbbreviations, monthField) =>
              result.t.month = PlaceIn(MonthAbbreviations, monthField)

\* the schedule of the test 'every Monday in January': previous returns a
\* Monday of January
C21_Witness ==
  /\ PreviousReturned
  /\ dowField = <<"M", "O", "N">> /\ monthField = <<"J", "A", "N">>
  /\ from = FromOfTests
  /\ result.t = fromObject(2025, 1, 27, 0, 0, 0)

(***************************************************************************)
(* C22: schedules that one instant matches                                 *)
(***************************************************************************)

\* the schedule holds one second, minute, hour, day, month and year, no
\* weekday and no modifier
SingleInstant ==
  /\ Len(fields) = 7
  /\ \A name \in {"seconds", "minutes", "hours", "daysOfMonth", "months", "years"} :
        Len(obj[name].values) = 1
  /\ Len(obj.daysOfWeek.values) = 0
  /\ obj.dayOfMonthModifiers = InitialFields.dayOfMonthModifiers
  /\ obj.dayOfWeekModifiers = InitialFields.dayOfWeekModifiers

\* the one instant such a schedule matches
TheInstant ==
  fromObject(obj.years.values[1], obj.months.values[1], obj.daysOfMonth.values[1],
             obj.hours.values[1], obj.minutes.values[1], obj.seconds.values[1])

\* C22: for a 7-field schedule that exactly one instant X matches, next(T)
\* and previous(T) both return X, for a reference T after X as well as for a
\* reference T before X.
C22_SingleInstantIsReturned ==
  (/\ pc = "done"
   /\ op \in {"next", "previous"}
   /\ SingleInstant
   /\ ~invalidReason(TheInstant)) =>
    result = Returned(TheInstant)

(***************************************************************************)
(* C23: the fifth Monday of February                                       *)
(***************************************************************************)

Instant(dt) ==
  LET h == dt.hour - offset[dt.zone]
  IN  <<daysFromCivil(dt.year, dt.month, dt.day) + (IF h > 23 THEN 1 ELSE IF h < 0 THEN -1 ELSE 0),
        ((h + 24) % 24) * 3600 + dt.minute * 60 + dt.second>>

\* the date-time a call returned, with the zone of the schedule
ReturnedInZone ==
  [year |-> result.t.year, month |-> result.t.month, day |-> result.t.day,
   hour |-> result.t.hour, minute |-> result.t.minute, second |-> result.t.second,
   zone |-> obj.timezone]

EveryDayAtEight == <<<<"0">>, <<"0">>, <<"8">>, <<"*">>, <<"*">>, <<"?">>>>

\* C24: the search runs in the zone of the schedule. Two calls of the same
\* method whose references are the same instant, expressed in different
\* zones, give the same result; the local hour, minute and second of a
\* returned instant, in the zone of the schedule, are members of the
\* schedule's sets; `0 0 8 * * ?` in America/New_York in late September
\* gives instants that are 08:00:00 local at -04:00, which is 12:00:00Z.
C24_TimezoneCorrectness ==
  (pc = "done" /\ op \in {"next", "previous"}) =>
    /\ (prior.op = op /\ Instant(prior.from) = Instant(from)) => result = prior.result
    /\ result.kind = "time" =>
         /\ Allows(obj.hours.values, result.t.hour)
         /\ Allows(obj.minutes.values, result.t.minute)
         /\ Allows(obj.seconds.values, result.t.second)
    /\ (fields = EveryDayAtEight /\ obj.timezone = "America/New_York") =>
         /\ result.kind = "time"
         /\ <<result.t.hour, result.t.minute, result.t.second>> = <<8, 0, 0>>
         /\ Instant(ReturnedInZone)[2] = 12 * 3600

\* next in America/New_York has answered 08:00:00-04:00 to the reference
\* 2025-09-28T12:00:00Z given in UTC, after the same answer to the same
\* instant given as 08:00:00 in America/New_York
C24_Witness ==
  /\ NextReturned
  /\ fields = EveryDayAtEight
  /\ obj.timezone = "America/New_York"
  /\ from.zone = "UTC"
  /\ prior.op = "next"
  /\ prior.from.zone = "America/New_York"
  /\ Instant(prior.from) = Instant(from)
  /\ Instant(from) = toUnixInteger(FromOfTests)
  /\ result.t.hour = 8
  /\ result = prior.result

(***************************************************************************)
(* C25: the offset of `L-N`                                                *)
(***************************************************************************)

\* the text after `L-` of the day-of-month token
OffsetText == SubSeq(domField, 3, Len(domField))

\* C25: a day-of-month token `L-N` whose offset N is negative or is not a
\* number makes construction fail with a CronError instead of producing a
\* schedule.
C25_InvalidOffsetRejected ==
  (/\ pc # "new"
   /\ Len(fields) \in 5..7
   /\ Len(domField) >= 2
   /\ SubSeq(domField, 1, 2) = <<"L", "-">>
   /\ ~IsNumeral(OffsetText)) =>
    pc = "failed"

(***************************************************************************)
(* C26: the coarsest description                                           *)
(***************************************************************************)

IsWildcard(field) == field \in {<<"*">>, <<"?">>}

\* the fields of the expression by name, the seconds field of five fields
\* being the implied `0`
Written ==
  LET k == IF Len(fields) > 5 THEN 1 ELSE 0
  IN  [second |-> IF k = 1 THEN fields[1] ELSE <<"0">>,
       minute |-> fields[k + 1], hour |-> fields[k + 2], dom |-> fields[k + 3],
       month  |-> fields[k + 4], dow  |-> fields[k + 5],
       year   |-> IF Len(fields) = 7 THEN fields[7] ELSE <<"*">>]

\* C26: translate() describes a schedule with seconds {0}, minutes {0} and
\* every other field a wildcard (e.g. `0 * * * *`) as 'every hour', and it
\* returns 'every second' only for schedules whose seconds, minutes and hours
\* fields are all unconstrained.
C26_CoarsestDescription ==
  (pc = "done" /\ op = "translate" /\ Len(fields) \in 5..7) =>
    /\ (/\ obj.seconds.values = <<0>> /\ obj.minutes.values = <<0>>
        /\ \A f \in {Written.hour, Written.dom, Written.month, Written.dow, Written.year} :
             IsWildcard(f)) =>
         result.text = <<"every hour">>
    /\ result.text = <<"every second">> =>
         \A f \in {Written.second, Written.minute, Written.hour} : IsWildcard(f)

(***************************************************************************)
(* C27: the exclusivity check by field count                               *)
(***************************************************************************)

\* C27: for expressions of 5, 6 and 7 fields, construction never fails with
\* the day-of-month/day-of-week conflict error when at least one of the two
\* day fields is `*` or `?` (e.g. `0 12 * 6 *`).
C27_ExclusivityByFieldCount ==
  (/\ pc # "new"
   /\ Len(fields) \in 5..7
   /\ IsWildcard(domField) \/ IsWildcard(dowField)) =>
    ~(/\ pc = "failed"
      /\ error = "Both day-of-month and day-of-week cannot be specified unless one is * or ?")

(***************************************************************************)
(* C28: a month without a valid day                                        *)
(***************************************************************************)

\* a search is at a cursor whose year and month the schedule allows and
\* whose effective day set is empty
AtEmptyMonth ==
  /\ pc \in {"next", "previous"}
  /\ ~invalidReason(d)
  /\ Allows(obj.years.values, d.year)
  /\ d.month \in elements(monthValuesOf(obj))
  /\ getDayOfMonthSet(obj, d.year, d.month) = <<>>

LaterMonths == {m \in elements(monthValuesOf(obj)) : m > d.month}

EarlierMonths == {m \in elements(monthValuesOf(obj)) : m < d.month}

\* C28: when the effective day set of the current (year, month) is empty, the
\* forward search continues with the next month of the month set and the
\* backward search with the previous one, in the same year; the year changes
\* only when the month set is exhausted.
C28_EmptyMonthAdvancesMonth ==
  [][(AtEmptyMonth /\ pc' = pc) =>
       /\ (pc = "next" /\ LaterMonths # {}) =>
            /\ d'.year = d.year
            /\ d'.month \in LaterMonths
            /\ \A m \in LaterMonths : d'.month <= m
       /\ (pc = "previous" /\ EarlierMonths # {}) =>
            /\ d'.year = d.year
            /\ d'.month \in EarlierMonths
            /\ \A m \in EarlierMonths : d'.month >= m]_vars

(***************************************************************************)
(* C29: the round trip around a fire time                                  *)
(***************************************************************************)

\* a search has ended that was started one second before (next) or one
\* second after (previous) an instant m of which isMatch had answered true
AroundFireTime ==
  /\ pc = "done"
  /\ op \in {"next", "previous"}
  /\ prior.op = "isMatch"
  /\ prior.result.kind = "true"
  /\ from = IF op = "next" THEN minusSecond(prior.from) ELSE plusSecond(prior.from)

\* C29: for every instant m with isMatch(m) true, next(m - 1 second) returns
\* m and previous(m + 1 second) returns m.
C29_RoundTrip ==
  AroundFireTime => result = Returned(prior.from)

(***************************************************************************)
(* C30: the effective day set                                              *)
(***************************************************************************)

\* the effective day set of the month that was examined
EffectiveDays == getDayOfMonthSet(obj, from.year, from.month)

ModifierActive ==
  \/ obj.dayOfMonthModifiers.lastDay
  \/ obj.dayOfMonthModifiers.lastWeekday
  \/ obj.dayOfMonthModifiers.nearestWeekday
  \/ truthy(obj.dayOfWeekModifiers.nthDay)
  \/ obj.dayOfWeekModifiers.lastDay

\* C30: for every constructed schedule, year and month, each member of the
\* effective day set is a real day of the month (between 1 and the number of
\* days of the month, 29 February only in leap years), the set is ascending
\* without duplicates, and it has at most one member when a day-of-month
\* modifier (L, L-N, LW, NW) or a day-of-week modifier (W#N, WL) is active.
C30_EffectiveDaySet ==
  DaysResolved =>
    /\ \A i \in 1..Len(EffectiveDays) : EffectiveDays[i] \in 1..MonthLength
    /\ \A i, j \in 1..Len(EffectiveDays) : i < j => EffectiveDays[i] < EffectiveDays[j]
    /\ ModifierActive => Len(EffectiveDays) <= 1

=============================================================================
